---- MODULE Spec2Model ----
(***************************************************************************)
(* MeshNotes: the annotation document and its import/merge engine.         *)
(*                                                                         *)
(* Representation of JavaScript values                                      *)
(*   - timestamps (ISO strings compared with > and localeCompare) are      *)
(*     natural numbers; 0 stands for a missing/empty timestamp ('' or      *)
(*     undefined), which is falsy and sorts before every real timestamp;   *)
(*   - UUIDs are natural numbers; 0 stands for a missing UUID; UUIDs made  *)
(*     by generateUUID() are UuidBase + n for a counter n;                 *)
(*   - numeric ids (Date.now() + random) are taken from a counter;         *)
(*   - a missing array (versions, links, faceData) is the empty sequence;  *)
(*   - points are triples <<x, y, z>> of integers.                         *)
(***************************************************************************)
EXTENDS Integers, Sequences, FiniteSets, TLC

VARIABLES
    groups,            \* state.groups
    annotations,       \* state.annotations
    modelInfoEntries,  \* state.modelInfo.entries
    idCounter,         \* numeric ids handed out so far (Date.now() + random)
    uuidCounter,       \* UUIDs handed out so far by generateUUID()
    clock,             \* the wall clock read by new Date()
    status,            \* the last message given to showStatus, with its counts
    importsDone,       \* number of files read so far
    lastImport,        \* the document before the last file was read, and the file
    exportedFrom,      \* the document the last file read was exported from
    editing,           \* the drawing tools: state's fields and editing.js's variables
    pointer,           \* the mouse: button, over the canvas or not, position
    lastOp             \* the last handler run, and the editor and list before it

docVars == <<groups, annotations, modelInfoEntries, idCounter, uuidCounter,
             clock, status, importsDone, lastImport, exportedFrom>>

editorVars == <<editing, pointer, lastOp>>

vars == <<docVars, editorVars>>

(***************************************************************************)
(* Bounds of the model.                                                    *)
(***************************************************************************)
MaxTime == 3
MaxImports == 2
MaxPending == 2
MaxPoints == 3
MaxAnnotations == 1

\* UUIDs produced by generateUUID() never collide with UUIDs found in files.
UuidBase == 100

(***************************************************************************)
(* Generic helpers.                                                        *)
(***************************************************************************)
Max(a, b) == IF a >= b THEN a ELSE b

SeqMax(s) ==
    LET F[i \in 0..Len(s)] == IF i = 0 THEN 0 ELSE Max(F[i - 1], s[i])
    IN F[Len(s)]

\* Index of the first element of s satisfying P, or 0 (Array.prototype.find).
FindFirst(s, P(_)) ==
    LET hits == {i \in 1..Len(s) : P(s[i])}
    IN IF hits = {} THEN 0 ELSE CHOOSE i \in hits : \A j \in hits : i <= j

\* Array.prototype.sort with a comparator on Key is stable: x goes after
\* every element whose key is not greater.
InsertSorted(s, x, Key(_)) ==
    LET later == {i \in 1..Len(s) : Key(s[i]) > Key(x)}
        pos == IF later = {} THEN Len(s) + 1
               ELSE CHOOSE i \in later : \A j \in later : i <= j
    IN SubSeq(s, 1, pos - 1) \o <<x>> \o SubSeq(s, pos, Len(s))

StableSort(s, Key(_)) ==
    LET F[i \in 0..Len(s)] ==
            IF i = 0 THEN <<>> ELSE InsertSorted(F[i - 1], s[i], Key)
    IN F[Len(s)]

IsSortedBy(s, Key(_)) == \A i \in 1..(Len(s) - 1) : Key(s[i]) <= Key(s[i + 1])

SavedAtOf(v) == v.savedAt
TimestampOf(e) == e.timestamp

(***************************************************************************)
(* w3c-format.js: coordinate transforms.                                   *)
(***************************************************************************)
pointToZUp(p) == <<p[1], 0 - p[3], p[2]>>

pointFromZUp(p) == <<p[1], p[3], 0 - p[2]>>

MapSeq(s, Op(_)) == [i \in 1..Len(s) |-> Op(s[i])]

NoBox == [present |-> FALSE, center |-> <<0, 0, 0>>, size |-> <<0, 0, 0>>,
          rotation |-> <<0, 0, 0>>]

NoSelector == [kind |-> "none", pts |-> <<>>, faces |-> <<>>,
               size |-> <<0, 0, 0>>, rot |-> <<0, 0, 0>>]

SwapYZ(t) == <<t[1], t[3], t[2]>>

(***************************************************************************)
(* projection.js: projected edges.                                         *)
(*                                                                         *)
(* A model is loaded (state.modelMeshes is not empty) and                  *)
(* state.surfaceProjectionEnabled keeps its default, true.  An optional    *)
(* field of a JavaScript object (projectedEdges and surfaceProjection of   *)
(* an annotation, surfaceProjection of a W3C item) is a field the record   *)
(* has or has not.  A projected edge is the polyline the projector lays    *)
(* on the surface between two end points: its end points and the number of *)
(* segments it was sampled with (the straight fallback of an unacceptable  *)
(* projection runs between the same end points).  Point and edge indices   *)
(* are those of the source, counted from 0.                                *)
(***************************************************************************)
Has(obj, field) == field \in DOMAIN obj

With(obj, field, value) == (field :> value) @@ obj

Without(obj, field) == [f \in DOMAIN obj \ {field} |-> obj[f]]

projectEdgeToSurface(pointA, pointB, segments) ==
    [from |-> pointA, to |-> pointB, segments |-> segments]

\* [pointA, pointB], the straight segment stored when the projection is not
\* taken.
straightEdge(pointA, pointB) == [from |-> pointA, to |-> pointB, segments |-> 1]

(***************************************************************************)
(* The scene.  The surface of the model is the plane z = x + 2, on which   *)
(* every point of a raycast lies; a point read from a file may lie off it. *)
(* Lengths are whole units and the deviation factors hundredths.           *)
(***************************************************************************)
\* state.projectionDeviationRelative = 0.20, in hundredths
projectionDeviationRelative == 20

\* state.projectionDeviationAbsolute = 0.03, in hundredths
projectionDeviationAbsolute == 3

\* state.modelBoundingSize of the loaded model
modelBoundingSize == 100

Abs(x) == IF x < 0 THEN -x ELSE x

Min(a, b) == IF a < b THEN a ELSE b

\* The distance of a point from the surface.
Height(p) == Abs(p[3] - (p[1] + 2))

\* lineDir.length(): the points of the scenes lie along one direction.
lineLength(pointA, pointB) == Abs(pointB[1] - pointA[1])

\* The largest distance of a sample of the projected polyline from the chord:
\* the samples are the points of the surface under the chord.
Deviation(pointA, pointB) ==
    IF Height(pointA) < Height(pointB) THEN Height(pointB) ELSE Height(pointA)

\* As isProjectionAcceptable, with the relative limit alone.
isProjectionAcceptableRelative(pointA, pointB) ==
    \/ lineLength(pointA, pointB) = 0
    \/ ~(100 * Deviation(pointA, pointB)
            > projectionDeviationRelative * lineLength(pointA, pointB))

\* isProjectionAcceptable(projectedPoints, pointA, pointB), for the polyline
\* projectEdgeToSurface(pointA, pointB) returns.
isProjectionAcceptable(pointA, pointB) ==
    \/ lineLength(pointA, pointB) = 0
    \/ ~(100 * Deviation(pointA, pointB)
            > Min(projectionDeviationRelative * lineLength(pointA, pointB),
                  projectionDeviationAbsolute * modelBoundingSize))

\* projected && isProjectionAcceptable(...) ? projected : [pointA, pointB];
\* projectEdgeToSurface returns null when no mesh is loaded.
edgeOrStraight(pointA, pointB, segments) ==
    IF editing.modelMeshes > 0 /\ isProjectionAcceptable(pointA, pointB)
    THEN projectEdgeToSurface(pointA, pointB, segments)
    ELSE straightEdge(pointA, pointB)

\* One projected edge per pair of consecutive points, and the closing edge
\* of a polygon of more than two points.
computeProjectedEdges(points, closePolygon) ==
    LET n == Len(points)
        open == [i \in 1..(n - 1) |->
                    edgeOrStraight(points[i], points[i + 1], 30)]
    IN IF closePolygon /\ n > 2
       THEN Append(open, edgeOrStraight(points[n], points[1], 30))
       ELSE open

\* The indices of the edges a call of computeProjectedEdges computes.
AllEdges(edges) == [i \in 1..Len(edges) |-> i - 1]

\* Recomputes every edge at the resolution of a drag.
recomputeEveryEdge(ann, pointIndex) ==
    IF ~Has(ann, "projectedEdges")
    THEN [ann |-> ann, projected |-> <<>>]
    ELSE LET n == Len(ann.points)
             edges == [i \in 1..Len(ann.projectedEdges) |->
                          edgeOrStraight(ann.points[i],
                                               ann.points[(i % n) + 1], 15)]
         IN [ann |-> [ann EXCEPT !.projectedEdges = edges],
             projected |-> AllEdges(edges)]

\* The annotation after recomputeAdjacentEdges, and the indices of the edges
\* it has computed, in the order of the calls of projectEdgeToSurface.
recomputeAdjacentEdges(ann, pointIndex) ==
    IF ~Has(ann, "projectedEdges")
    THEN [ann |-> ann, projected |-> <<>>]
    ELSE LET n == Len(ann.points)
             edges == ann.projectedEdges
             prevIdx == IF ann.type = "polygon"
                        THEN (pointIndex - 1 + n) % n
                        ELSE pointIndex - 1
             nextIdx == pointIndex + 1
             doPrev == prevIdx >= 0 /\ prevIdx < n /\ prevIdx < Len(edges)
             doNext == nextIdx < n /\ pointIndex < Len(edges)
             doClosing == /\ ~(nextIdx < n)
                          /\ ann.type = "polygon" /\ pointIndex = n - 1
                          /\ Len(edges) > 0
             closingIdx == Len(edges) - 1
             edges1 == IF doPrev
                       THEN [edges EXCEPT ![prevIdx + 1] =
                               edgeOrStraight(ann.points[prevIdx + 1],
                                   ann.points[pointIndex + 1], 15)]
                       ELSE edges
             edges2 == IF doNext
                       THEN [edges1 EXCEPT ![pointIndex + 1] =
                               edgeOrStraight(ann.points[pointIndex + 1],
                                   ann.points[nextIdx + 1], 15)]
                       ELSE IF doClosing
                       THEN [edges1 EXCEPT ![closingIdx + 1] =
                               edgeOrStraight(ann.points[pointIndex + 1],
                                   ann.points[1], 15)]
                       ELSE edges1
         IN [ann |-> [ann EXCEPT !.projectedEdges = edges2],
             projected |-> (IF doPrev THEN <<prevIdx>> ELSE <<>>)
                           \o (IF doNext THEN <<pointIndex>>
                               ELSE IF doClosing THEN <<closingIdx>>
                               ELSE <<>>)]

IsLineOrPolygon(ann) == ann.type = "line" \/ ann.type = "polygon"

\* ann.surfaceProjection !== false
ProjectionNotOff(ann) == ~Has(ann, "surfaceProjection") \/ ann.surfaceProjection

\* ann.surfaceProjection, as a condition
ProjectionOn(ann) == Has(ann, "surfaceProjection") /\ ann.surfaceProjection

\* ann.projectedEdges = computeProjectedEdges(...); ann.surfaceProjection = true
projected(ann) ==
    With(With(ann, "projectedEdges",
              computeProjectedEdges(ann.points, ann.type = "polygon")),
         "surfaceProjection", TRUE)

\* The forEach of reprojectAllAnnotations, for one annotation.
reprojectAnnotation(ann) ==
    IF IsLineOrPolygon(ann) /\ Len(ann.points) >= 2 /\ ProjectionNotOff(ann)
    THEN projected(ann)
    ELSE ann

reprojectAllAnnotations(anns) ==
    IF editing.modelMeshes = 0 THEN anns ELSE MapSeq(anns, reprojectAnnotation)

\* saveAnnotation, the end of the branch for a new annotation: a line or a
\* polygon of two points or more records the choice of the projection
\* checkbox and, if it is checked, its projected edges.
withProjection(ann, wantsProjection) ==
    IF IsLineOrPolygon(ann) /\ Len(ann.points) >= 2
    THEN IF wantsProjection
         THEN projected(ann)
         ELSE With(ann, "surfaceProjection", FALSE)
    ELSE ann

(***************************************************************************)
(* import-json.js: helpers of importW3CAnnotations.                        *)
(***************************************************************************)
\* entry.modified || entry.timestamp || entry.created || ''
entryTimestamp(entry) ==
    IF entry.modified # 0 THEN entry.modified ELSE entry.timestamp

\* importedTime > existingTime, the test that lets the imported entry overwrite.
importedWinsOnTie(importedTime, existingTime) == importedTime >= existingTime

importedWins(importedTime, existingTime) == importedTime > existingTime

\* As mergeVersionHistories, without the final sort.
mergeVersionHistoriesUnsorted(existingVersions, importedVersions) ==
    LET F[i \in 0..Len(importedVersions)] ==
            IF i = 0 THEN existingVersions
            ELSE IF \E k \in 1..Len(F[i - 1]) :
                        F[i - 1][k].savedAt = importedVersions[i].savedAt
                 THEN F[i - 1]
                 ELSE Append(F[i - 1], importedVersions[i])
    IN F[Len(importedVersions)]

\* Appends the imported versions whose savedAt is not yet present, then sorts
\* by savedAt.  With no imported versions the list is returned untouched.
mergeVersionHistories(existingVersions, importedVersions) ==
    IF Len(importedVersions) = 0 THEN existingVersions
    ELSE LET F[i \in 0..Len(importedVersions)] ==
                 IF i = 0 THEN existingVersions
                 ELSE IF \E k \in 1..Len(F[i - 1]) :
                             F[i - 1][k].savedAt = importedVersions[i].savedAt
                      THEN F[i - 1]
                      ELSE Append(F[i - 1], importedVersions[i])
         IN StableSort(F[Len(importedVersions)], SavedAtOf)

\* As sameContent, without the author.
sameContentButAuthor(e, importedEntry) ==
    /\ e.description = importedEntry.description
    /\ e.timestamp = importedEntry.timestamp

\* The content match that stands in for a missing entry UUID.
sameContent(e, importedEntry) ==
    /\ e.description = importedEntry.description
    /\ e.author = importedEntry.author
    /\ e.timestamp = importedEntry.timestamp

\* Index of the existing entry an imported entry stands for (0 if none):
\* by UUID first, then by content.
findEntry(existingEntries, importedEntry) ==
    LET SameUuid(e) == e.uuid = importedEntry.uuid
        SameContent(e) == sameContent(e, importedEntry)
        byUuid == FindFirst(existingEntries, SameUuid)
    IN IF byUuid # 0 THEN byUuid ELSE FindFirst(existingEntries, SameContent)

\* The matched branch of mergeEntries after the version histories are
\* merged: withVersions is the existing entry with its merged history.
updateEntry(acc, importedEntry, idx, withVersions) ==
    IF importedWins(entryTimestamp(importedEntry), entryTimestamp(withVersions))
    THEN [entries |-> [acc.entries EXCEPT ![idx] =
              [withVersions EXCEPT
                  !.description = importedEntry.description,
                  !.author = importedEntry.author,
                  !.modified = importedEntry.modified,
                  !.links = importedEntry.links]],
          entriesAdded |-> acc.entriesAdded,
          entriesUpdated |-> acc.entriesUpdated + 1]
    ELSE [entries |-> [acc.entries EXCEPT ![idx] = withVersions],
          entriesAdded |-> acc.entriesAdded,
          entriesUpdated |-> acc.entriesUpdated]

\* The body of the forEach in mergeEntries once the existing entry is
\* looked up (idx = 0: none).
mergeEntryAt(acc, importedEntry, idx) ==
    IF idx = 0
    THEN [entries |-> Append(acc.entries, importedEntry),
          entriesAdded |-> acc.entriesAdded + 1,
          entriesUpdated |-> acc.entriesUpdated]
    ELSE updateEntry(acc, importedEntry, idx,
             [acc.entries[idx] EXCEPT !.versions =
                 mergeVersionHistories(acc.entries[idx].versions,
                                       importedEntry.versions)])

\* One iteration of the forEach in mergeEntries.
mergeOneEntry(acc, importedEntry) ==
    mergeEntryAt(acc, importedEntry, findEntry(acc.entries, importedEntry))

\* The state of mergeEntries after its first n imported entries (before the
\* final sort).
mergeEntriesPrefix(existingEntries, importedEntries, n) ==
    LET F[i \in 0..n] ==
            IF i = 0 THEN [entries |-> existingEntries, entriesAdded |-> 0,
                           entriesUpdated |-> 0]
            ELSE mergeOneEntry(F[i - 1], importedEntries[i])
    IN F[n]

\* existingEntries.sort by timestamp, at the end of mergeEntries.
sortedByTimestamp(r) == [r EXCEPT !.entries = StableSort(r.entries, TimestampOf)]

mergeEntries(existingEntries, importedEntries) ==
    sortedByTimestamp(mergeEntriesPrefix(existingEntries, importedEntries,
                                         Len(importedEntries)))

(***************************************************************************)
(* w3c-format.js: W3C annotation -> internal annotation.                   *)
(*                                                                         *)
(* A parsed W3C item is a record                                           *)
(*   malformed     the item is not an object (null), so reading a field    *)
(*                 of it throws                                            *)
(*   uuid          the UUID after 'urn:meshnotes:annotation:' in id, or 0  *)
(*   created       w3cAnn.created                                          *)
(*   name          schema:name ("" when missing)                           *)
(*   groupUuid, groupId    meshnotes:groupUuid, meshnotes:groupId          *)
(*   annType       annotationType ("" when missing)                        *)
(*   selector      target.selector, see parseSelector                      *)
(*   body          the TextualBody list                                    *)
(*   nameVersions, groupVersions                                           *)
(* and a body is [entryUuid, value, creator, created, modified, url,       *)
(* versions] with versions a list of [value, creator, url, savedAt].       *)
(***************************************************************************)
\* groupIdMap is a JavaScript object used as a map; here a set of
\* <<key, value>> pairs with at most one pair per key.
MapPut(m, k, v) == {p \in m : p[1] # k} \cup {<<k, v>>}

\* A key every JavaScript object inherits from Object.prototype, such as
\* 'constructor', and the value found under it, a function: not a number,
\* and truthy.
ConstructorKey == -1
ObjectFunction == -2

\* groupIdMap[k]: the value put under k, else what the object inherits
\* under k, else undefined (0).
MapGet(m, k) ==
    IF \E p \in m : p[1] = k THEN (CHOOSE p \in m : p[1] = k)[2]
    ELSE IF k = <<"id", ConstructorKey>> THEN ObjectFunction
    ELSE 0

\* parseSelector: fills points, faceData, boxData and type from the selector.
parseSelector(selector, ann) ==
    CASE selector.kind = "point" ->
            IF Len(selector.pts) = 1
            THEN [ann EXCEPT !.points = selector.pts, !.type = "point"]
            ELSE ann
      [] selector.kind = "polyline" ->
            [ann EXCEPT !.points = selector.pts, !.type = "line"]
      [] selector.kind = "polygon" ->
            [ann EXCEPT !.points = selector.pts, !.type = "polygon"]
      [] selector.kind = "faces" ->
            \* 'faces='.split(',') of an empty list is [''], one empty id
            [ann EXCEPT !.faceData = IF Len(selector.faces) = 0 THEN <<"">>
                                     ELSE selector.faces,
                        !.type = "surface",
                        !.points = selector.pts]
      [] selector.kind = "box" ->
            [ann EXCEPT !.type = "box", !.points = selector.pts,
                        !.boxData = [present |-> TRUE,
                                     center |-> selector.pts[1],
                                     size |-> SwapYZ(selector.size),
                                     rotation |-> SwapYZ(selector.rot)]]
      [] OTHER -> ann

\* The version snapshots of a body, as entry versions.
versionsFromBody(body) ==
    [i \in 1..Len(body.versions) |->
        [description |-> body.versions[i].value,
         author |-> body.versions[i].creator,
         links |-> body.versions[i].url,
         savedAt |-> body.versions[i].savedAt]]

\* Number of bodies among the first n that carry no entry UUID.
MissingUuids(bodies, n) == Cardinality({i \in 1..n : bodies[i].entryUuid = 0})

\* body -> entry, as in convertFromW3CAnnotation and in the model-info part
\* of importW3CAnnotations.  fallbackCreated is w3cAnn.created (0 for model
\* info); freshUuid is the UUID generateUUID() returns for this body.
entryFromBody(body, fallbackCreated, freshUuid, now) ==
    [uuid |-> IF body.entryUuid # 0 THEN body.entryUuid ELSE freshUuid,
     description |-> body.value,
     author |-> body.creator,
     timestamp |-> IF body.created # 0 THEN body.created
                   ELSE IF fallbackCreated # 0 THEN fallbackCreated
                   ELSE now,
     modified |-> body.modified,
     links |-> body.url,
     versions |-> versionsFromBody(body)]

\* newId is the numeric id of the new annotation; generated UUIDs are
\* UuidBase + firstUuid + 1, ... in the order generateUUID() is called.
convertFromW3CAnnotation(w3cAnn, groupIdMap, newId, firstUuid, now) ==
    LET own == IF w3cAnn.uuid # 0 THEN 0 ELSE 1
        byUuid == IF w3cAnn.groupUuid # 0
                  THEN MapGet(groupIdMap, <<"uuid", w3cAnn.groupUuid>>) ELSE 0
        byId == IF w3cAnn.groupId # 0
                THEN MapGet(groupIdMap, <<"id", w3cAnn.groupId>>) ELSE 0
        ann0 == [id |-> newId,
                 uuid |-> IF w3cAnn.uuid # 0 THEN w3cAnn.uuid
                          ELSE UuidBase + firstUuid + 1,
                 type |-> IF w3cAnn.annType # "" THEN w3cAnn.annType
                          ELSE "point",
                 name |-> IF w3cAnn.name # "" THEN w3cAnn.name ELSE "Unnamed",
                 groupId |-> IF byUuid # 0 THEN byUuid ELSE byId,
                 points |-> <<>>,
                 faceData |-> <<>>,
                 boxData |-> NoBox,
                 entries |-> <<>>,
                 nameVersions |-> w3cAnn.nameVersions,
                 groupVersions |-> w3cAnn.groupVersions]
        ann1 == parseSelector(w3cAnn.selector, ann0)
        \* w3cAnn['surfaceProjection'] === false
        ann2 == IF Has(w3cAnn, "surfaceProjection") /\ ~w3cAnn.surfaceProjection
                THEN With(ann1, "surfaceProjection", FALSE)
                ELSE ann1
    IN [ann2 EXCEPT !.entries =
            [i \in 1..Len(w3cAnn.body) |->
                entryFromBody(w3cAnn.body[i], w3cAnn.created,
                    UuidBase + firstUuid + own + MissingUuids(w3cAnn.body, i),
                    now)]]

\* Number of generateUUID() calls convertFromW3CAnnotation makes.
UuidsGenerated(w3cAnn) ==
    (IF w3cAnn.uuid # 0 THEN 0 ELSE 1)
        + MissingUuids(w3cAnn.body, Len(w3cAnn.body))

(***************************************************************************)
(* import-json.js: importW3CAnnotations.                                   *)
(*                                                                         *)
(* The running state of one import is a record acc with the document       *)
(* (groups, annotations, modelInfoEntries), the two generators, the local  *)
(* groupIdMap, the three counters and `failed`, set when a step throws.    *)
(***************************************************************************)
\* A conversion that leaves the box centre as the file has it.
transformPointsOnly(ann, needsTransform) ==
    IF ~needsTransform THEN ann
    ELSE [ann EXCEPT !.points = MapSeq(ann.points, pointFromZUp)]

transformAnnotationCoords(ann, needsTransform) ==
    IF ~needsTransform THEN ann
    ELSE [ann EXCEPT !.points = MapSeq(ann.points, pointFromZUp),
                     !.boxData = IF ann.boxData.present
                                 THEN [ann.boxData EXCEPT
                                          !.center = pointFromZUp(ann.boxData.center)]
                                 ELSE ann.boxData]

\* Math.max(...entries.map(e => new Date(entryTimestamp(e)).getTime() || 0)),
\* 0 for no entries.
LatestEntryTime(entries) ==
    SeqMax([i \in 1..Len(entries) |-> entryTimestamp(entries[i])])

\* The entries made of data.modelInfo.body.
modelInfoEntriesOf(bodies, firstUuid, now) ==
    [i \in 1..Len(bodies) |->
        entryFromBody(bodies[i], 0,
                      UuidBase + firstUuid + MissingUuids(bodies, i), now)]

\* Merge model info entries.
importModelInfo(acc, bodies, now) ==
    IF Len(bodies) = 0 THEN acc
    ELSE LET importedEntries ==
                 modelInfoEntriesOf(bodies, acc.uuidCounter, now)
         IN [acc EXCEPT
                !.modelInfoEntries =
                    mergeEntries(acc.modelInfoEntries, importedEntries).entries,
                !.uuidCounter = acc.uuidCounter
                                  + MissingUuids(bodies, Len(bodies))]

\* As findGroup, looking at the name before the UUID.
findGroupNameFirst(localGroups, groupUuid, groupName) ==
    LET SameUuid(g) == g.uuid = groupUuid
        SameName(g) == g.name = groupName
        byName == FindFirst(localGroups, SameName)
    IN IF byName # 0 THEN byName
       ELSE IF groupUuid # 0 THEN FindFirst(localGroups, SameUuid) ELSE 0

\* Index of the existing group an imported group stands for (0 if none):
\* by UUID first, then by name.
findGroup(localGroups, groupUuid, groupName) ==
    LET SameUuid(g) == g.uuid = groupUuid
        SameName(g) == g.name = groupName
        byUuid == IF groupUuid # 0 THEN FindFirst(localGroups, SameUuid) ELSE 0
    IN IF byUuid # 0 THEN byUuid ELSE FindFirst(localGroups, SameName)

\* importedGroup.name || 'Imported Group'
groupNameOf(importedGroup) ==
    IF importedGroup.name # "" THEN importedGroup.name ELSE "Imported Group"

\* groupIdMap[importedGroup.id] = localId, and the same under 'uuid:' + UUID
\* if the imported group has one.
mapGroup(groupIdMap, importedGroup, localId) ==
    IF importedGroup.uuid # 0
    THEN MapPut(MapPut(groupIdMap, <<"id", importedGroup.id>>, localId),
                <<"uuid", importedGroup.uuid>>, localId)
    ELSE MapPut(groupIdMap, <<"id", importedGroup.id>>, localId)

\* The body of the forEach over data['meshnotes:groups'] once the existing
\* group is looked up (idx = 0: none).
importGroupAt(acc, importedGroup, idx) ==
    IF idx = 0
    THEN [acc EXCEPT
             !.groups = Append(acc.groups,
                 [id |-> acc.idCounter + 1,
                  uuid |-> IF importedGroup.uuid # 0 THEN importedGroup.uuid
                           ELSE UuidBase + acc.uuidCounter + 1,
                  name |-> groupNameOf(importedGroup)]),
             !.idCounter = acc.idCounter + 1,
             !.uuidCounter = IF importedGroup.uuid # 0 THEN acc.uuidCounter
                             ELSE acc.uuidCounter + 1,
             !.groupIdMap = mapGroup(acc.groupIdMap, importedGroup,
                                     acc.idCounter + 1)]
    ELSE [acc EXCEPT
             !.groupIdMap = mapGroup(acc.groupIdMap, importedGroup,
                                     acc.groups[idx].id)]

\* One iteration of the forEach over data['meshnotes:groups'].
importGroup(acc, importedGroup) ==
    importGroupAt(acc, importedGroup,
        findGroup(acc.groups, importedGroup.uuid, groupNameOf(importedGroup)))

importGroupsPrefix(acc, importedGroups, n) ==
    LET F[i \in 0..n] ==
            IF i = 0 THEN acc ELSE importGroup(F[i - 1], importedGroups[i])
    IN F[n]

\* As metadataIsNewer, letting a tie overwrite.
metadataIsNewerOrSame(importedLatest, existingLatest) ==
    importedLatest >= existingLatest

\* importedLatest > existingLatest, the test that lets the imported name,
\* group and geometry overwrite.
metadataIsNewer(importedLatest, existingLatest) ==
    importedLatest > existingLatest

\* Merge name version histories; merge group version histories.
withHistories(existingAnn, importedAnn) ==
    [existingAnn EXCEPT
        !.nameVersions = mergeVersionHistories(
            existingAnn.nameVersions, importedAnn.nameVersions),
        !.groupVersions = mergeVersionHistories(
            existingAnn.groupVersions, importedAnn.groupVersions)]

\* Update metadata (name, group, geometry) if imported version is newer.
withGeometry(a1, importedAnn) ==
    [a1 EXCEPT
        !.name = importedAnn.name,
        !.groupId = importedAnn.groupId,
        !.points = importedAnn.points,
        !.faceData = IF Len(importedAnn.faceData) > 0
                     THEN importedAnn.faceData ELSE a1.faceData,
        !.boxData = IF importedAnn.boxData.present
                    THEN importedAnn.boxData ELSE a1.boxData]

withMetadata(a1, importedAnn, newer) ==
    IF newer
    THEN IF Has(importedAnn, "projectedEdges")
         THEN With(withGeometry(a1, importedAnn), "projectedEdges",
                   importedAnn.projectedEdges)
         ELSE withGeometry(a1, importedAnn)
    ELSE a1

\* The annotation with its merged entries, and whether the import counts
\* it as merged.
withEntries(a2, result) ==
    [ann |-> [a2 EXCEPT !.entries = result.entries],
     changed |-> result.entriesAdded > 0 \/ result.entriesUpdated > 0]

\* Merge body entries (including their version histories).
mergeAnnotationEntries(a2, importedAnn) ==
    withEntries(a2, mergeEntries(a2.entries, importedAnn.entries))

\* The merge branch of the forEach over data.first.items.  The two latest
\* entry times are taken before anything is merged.
mergeAnnotation(existingAnn, importedAnn) ==
    mergeAnnotationEntries(
        withMetadata(withHistories(existingAnn, importedAnn), importedAnn,
                     metadataIsNewer(LatestEntryTime(importedAnn.entries),
                                     LatestEntryTime(existingAnn.entries))),
        importedAnn)

\* As sameAnnotation, taking an equal name for identity too.
sameAnnotationOrName(a, importedAnn) ==
    a.uuid = importedAnn.uuid \/ a.name = importedAnn.name

\* state.annotations.find(a => a.uuid === importedAnn.uuid)
sameAnnotation(a, importedAnn) == a.uuid = importedAnn.uuid

\* If no group assigned, use default; the default group is created if the
\* document has no group at all.  generated is the number of UUIDs the
\* conversion of the item has made.
withGroup(acc, converted, generated) ==
    LET needsDefault == converted.groupId = 0 /\ Len(acc.groups) = 0
        groups1 == IF needsDefault
                   THEN <<[id |-> acc.idCounter + 2,
                           uuid |-> UuidBase + acc.uuidCounter + generated + 1,
                           name |-> "Default"]>>
                   ELSE acc.groups
    IN [ann |-> IF converted.groupId = 0
                THEN [converted EXCEPT !.groupId = groups1[1].id]
                ELSE converted,
        groups |-> groups1,
        needsDefault |-> needsDefault]

\* The head of an iteration over data.first.items: the item converted,
\* transformed and given a group.
importedAnnotationOf(acc, w3cAnn, needsTransform, now) ==
    withGroup(acc,
              transformAnnotationCoords(
                  convertFromW3CAnnotation(w3cAnn, acc.groupIdMap,
                      acc.idCounter + 1, acc.uuidCounter, now),
                  needsTransform),
              UuidsGenerated(w3cAnn))

\* The existing annotation is replaced by the merged one and counted.
annotationMerged(acc, c, uuids1, idx, m) ==
    [acc EXCEPT
        !.groups = c.groups,
        !.annotations = [acc.annotations EXCEPT ![idx] = m.ann],
        !.idCounter = acc.idCounter + (IF c.needsDefault THEN 1 ELSE 0),
        !.uuidCounter = uuids1,
        !.mergedCount = acc.mergedCount + (IF m.changed THEN 1 ELSE 0),
        !.skippedCount = acc.skippedCount + (IF m.changed THEN 0 ELSE 1)]

\* The tail of an iteration over data.first.items, once the existing
\* annotation is looked up (idx = 0: none).
placeAnnotation(acc, c, uuids1, idx) ==
    IF idx = 0
    THEN [acc EXCEPT
             !.groups = c.groups,
             !.annotations = Append(acc.annotations, c.ann),
             !.idCounter = acc.idCounter + (IF c.needsDefault THEN 2 ELSE 1),
             !.uuidCounter = uuids1,
             !.addedCount = acc.addedCount + 1]
    ELSE annotationMerged(acc, c, uuids1, idx,
                          mergeAnnotation(acc.annotations[idx], c.ann))

\* Check if annotation with same UUID already exists.
findAnnotation(localAnnotations, importedAnn) ==
    LET SameUuid(a) == sameAnnotation(a, importedAnn)
    IN FindFirst(localAnnotations, SameUuid)

importConverted(acc, c, generated) ==
    placeAnnotation(acc, c,
        acc.uuidCounter + generated + (IF c.needsDefault THEN 1 ELSE 0),
        findAnnotation(acc.annotations, c.ann))

\* One iteration of the forEach over data.first.items.  A malformed item
\* makes convertFromW3CAnnotation throw; nothing in importW3CAnnotations
\* catches it, so the rest of the import is not run.
importItem(acc, w3cAnn, needsTransform, now) ==
    IF acc.failed THEN acc
    ELSE IF w3cAnn.malformed THEN [acc EXCEPT !.failed = TRUE]
    ELSE importConverted(acc,
             importedAnnotationOf(acc, w3cAnn, needsTransform, now),
             UuidsGenerated(w3cAnn))

importItemsPrefix(acc, items, needsTransform, now, n) ==
    LET F[i \in 0..n] ==
            IF i = 0 THEN acc
            ELSE importItem(F[i - 1], items[i], needsTransform, now)
    IN F[n]

(***************************************************************************)
(* A parsed file is a record `data`:                                       *)
(*   isNull          the JSON text is `null`                               *)
(*   context, type   '@context' is present; the value of type              *)
(*   upAxis          "Z", "Y" or "" (missing)                              *)
(*   w3cGroups       data['meshnotes:groups']                              *)
(*   items           data.first.items                                      *)
(*   modelInfo       data.modelInfo.body                                   *)
(*   hasGroups, hasAnnotations   the legacy keys groups/annotations exist  *)
(*   groups, annotations, legacyModelInfo   their legacy contents          *)
(***************************************************************************)
DocOf(g, a, m, ids, uuids) ==
    [groups |-> g, annotations |-> a, modelInfoEntries |-> m,
     idCounter |-> ids, uuidCounter |-> uuids]

StartAcc(pre) ==
    [groups |-> pre.groups, annotations |-> pre.annotations,
     modelInfoEntries |-> pre.modelInfoEntries,
     idCounter |-> pre.idCounter, uuidCounter |-> pre.uuidCounter,
     groupIdMap |-> {}, addedCount |-> 0, mergedCount |-> 0,
     skippedCount |-> 0, failed |-> FALSE]

NeedsTransform(data) == data.upAxis = "Z"

\* importW3CAnnotations after the model info and the first n groups.
W3CAfterGroupsPrefix(pre, data, now, n) ==
    importGroupsPrefix(importModelInfo(StartAcc(pre), data.modelInfo, now),
                       data.w3cGroups, n)

\* importW3CAnnotations up to and including the group loop.
W3CAfterGroups(pre, data, now) ==
    W3CAfterGroupsPrefix(pre, data, now, Len(data.w3cGroups))

\* importW3CAnnotations after the first n items.
W3CAfterItems(pre, data, now, n) ==
    importItemsPrefix(W3CAfterGroups(pre, data, now), data.items,
                      NeedsTransform(data), now, n)

\* The document and the status message an import run leaves behind.  An
\* import that ran to the end has called reprojectAllAnnotations; one that
\* threw has not.
W3CResult(acc) ==
    [doc |-> DocOf(acc.groups,
                   IF acc.failed THEN acc.annotations
                   ELSE reprojectAllAnnotations(acc.annotations),
                   acc.modelInfoEntries, acc.idCounter, acc.uuidCounter),
     status |-> IF acc.failed
                THEN [kind |-> "error", added |-> 0, merged |-> 0,
                      unchanged |-> 0]
                ELSE [kind |-> "import", added |-> acc.addedCount,
                      merged |-> acc.mergedCount,
                      unchanged |-> acc.skippedCount]]

importW3CAnnotations(pre, data, now) ==
    W3CResult(W3CAfterItems(pre, data, now, Len(data.items)))

(***************************************************************************)
(* import-json.js: importLegacyAnnotations.                                *)
(***************************************************************************)
\* data.annotations.forEach(ann => if (ann.groupId === importedGroup.id) ...)
remapGroup(pending, importedId, localId) ==
    [i \in 1..Len(pending) |->
        IF pending[i].groupId = importedId
        THEN [pending[i] EXCEPT !.groupId = localId]
        ELSE pending[i]]

legacyGroupAt(acc, importedGroup, idx) ==
    IF idx = 0
    THEN [acc EXCEPT
             !.groups = Append(acc.groups,
                 [id |-> acc.idCounter + 1,
                  uuid |-> IF importedGroup.uuid # 0 THEN importedGroup.uuid
                           ELSE UuidBase + acc.uuidCounter + 1,
                  name |-> importedGroup.name]),
             !.idCounter = acc.idCounter + 1,
             !.uuidCounter = IF importedGroup.uuid # 0 THEN acc.uuidCounter
                             ELSE acc.uuidCounter + 1,
             !.pending = remapGroup(acc.pending, importedGroup.id,
                                    acc.idCounter + 1)]
    ELSE [acc EXCEPT
             !.pending = remapGroup(acc.pending, importedGroup.id,
                                    acc.groups[idx].id)]

\* One iteration of the group loop: the imported annotations that point at
\* the imported group are re-pointed at the local group.
legacyGroup(acc, importedGroup) ==
    LET SameName(g) == g.name = importedGroup.name
    IN legacyGroupAt(acc, importedGroup, FindFirst(acc.groups, SameName))

\* Number of entries among the first n that carry no UUID.
MissingEntryUuids(entries, n) == Cardinality({i \in 1..n : entries[i].uuid = 0})

WithEntryUuids(entries, firstUuid) ==
    [i \in 1..Len(entries) |->
        IF entries[i].uuid # 0 THEN entries[i]
        ELSE [entries[i] EXCEPT
                 !.uuid = UuidBase + firstUuid + MissingEntryUuids(entries, i)]]

\* One iteration of the annotation loop.
legacyAnnotation(acc, ann) ==
    LET own == IF ann.uuid # 0 THEN 0 ELSE 1
    IN [acc EXCEPT
           !.annotations = Append(acc.annotations,
               [ann EXCEPT
                   !.id = acc.idCounter + 1,
                   !.uuid = IF ann.uuid # 0 THEN ann.uuid
                            ELSE UuidBase + acc.uuidCounter + 1,
                   !.entries = WithEntryUuids(ann.entries,
                                              acc.uuidCounter + own)]),
           !.idCounter = acc.idCounter + 1,
           !.uuidCounter = acc.uuidCounter + own
                             + MissingEntryUuids(ann.entries, Len(ann.entries))]

legacyGroups(acc, importedGroups) ==
    LET G[i \in 0..Len(importedGroups)] ==
            IF i = 0 THEN acc ELSE legacyGroup(G[i - 1], importedGroups[i])
    IN G[Len(importedGroups)]

\* The annotation loop, over the annotations as the group loop left them.
legacyAnnotations(acc) ==
    LET A[i \in 0..Len(acc.pending)] ==
            IF i = 0 THEN acc ELSE legacyAnnotation(A[i - 1], acc.pending[i])
    IN A[Len(acc.pending)]

legacyResult(pre, data, acc) ==
    [doc |-> DocOf(acc.groups, reprojectAllAnnotations(acc.annotations),
                   pre.modelInfoEntries
                       \o WithEntryUuids(data.legacyModelInfo, pre.uuidCounter),
                   acc.idCounter, acc.uuidCounter),
     status |-> [kind |-> "legacy", added |-> Len(data.annotations),
                 merged |-> 0, unchanged |-> 0]]

importLegacyAnnotations(pre, data) ==
    legacyResult(pre, data,
        legacyAnnotations(legacyGroups(
            [groups |-> pre.groups, annotations |-> pre.annotations,
             idCounter |-> pre.idCounter,
             uuidCounter |-> pre.uuidCounter
                 + MissingEntryUuids(data.legacyModelInfo,
                                     Len(data.legacyModelInfo)),
             pending |-> data.annotations],
            data.groups)))

(***************************************************************************)
(* import-json.js: importAnnotations, the onload handler of the reader.    *)
(***************************************************************************)
\* As IsW3C, not asking for '@context'.
IsW3CByType(data) == data.type = "AnnotationCollection"

IsW3C(data) == data.context /\ data.type = "AnnotationCollection"

IsLegacy(data) == data.hasGroups /\ data.hasAnnotations

importAnnotations(pre, data, now) ==
    IF data.isNull
    THEN \* data['@context'] throws; the catch reports it
         [doc |-> pre, status |-> [kind |-> "error", added |-> 0, merged |-> 0,
                                   unchanged |-> 0]]
    ELSE IF IsW3C(data) THEN importW3CAnnotations(pre, data, now)
    ELSE IF IsLegacy(data) THEN importLegacyAnnotations(pre, data)
    ELSE [doc |-> pre, status |-> [kind |-> "invalid", added |-> 0, merged |-> 0,
                                   unchanged |-> 0]]

(***************************************************************************)
(* export-json.js and w3c-format.js: internal document -> W3C collection.  *)
(***************************************************************************)
formatPointsAsSelector(ann) ==
    CASE ann.type = "point" ->
            [NoSelector EXCEPT !.kind = "point",
                               !.pts = <<pointToZUp(ann.points[1])>>]
      [] ann.type = "line" ->
            [NoSelector EXCEPT !.kind = "polyline",
                               !.pts = MapSeq(ann.points, pointToZUp)]
      [] ann.type = "polygon" ->
            [NoSelector EXCEPT !.kind = "polygon",
                               !.pts = MapSeq(ann.points, pointToZUp)]
      [] ann.type = "surface" /\ Len(ann.faceData) > 0 ->
            [NoSelector EXCEPT !.kind = "faces",
                               !.faces = IF ann.faceData = <<"">> THEN <<>>
                                         ELSE ann.faceData,
                               !.pts = IF Len(ann.points) > 0
                                       THEN <<pointToZUp(ann.points[1])>>
                                       ELSE <<>>]
      [] ann.type = "box" /\ ann.boxData.present ->
            [NoSelector EXCEPT !.kind = "box",
                               !.pts = <<pointToZUp(ann.boxData.center)>>,
                               !.size = SwapYZ(ann.boxData.size),
                               !.rot = SwapYZ(ann.boxData.rotation)]
      [] OTHER -> NoSelector

bodyFromEntry(entry) ==
    [entryUuid |-> entry.uuid,
     value |-> entry.description,
     creator |-> entry.author,
     created |-> entry.timestamp,
     modified |-> entry.modified,
     url |-> entry.links,
     versions |-> [i \in 1..Len(entry.versions) |->
                     [value |-> entry.versions[i].description,
                      creator |-> entry.versions[i].author,
                      url |-> entry.versions[i].links,
                      savedAt |-> entry.versions[i].savedAt]]]

convertToW3CAnnotation(ann, groupUuid, now) ==
    [malformed |-> FALSE,
     uuid |-> ann.uuid,
     created |-> IF Len(ann.entries) > 0 THEN ann.entries[1].timestamp ELSE now,
     name |-> IF ann.name # "" THEN ann.name ELSE "Unnamed",
     groupUuid |-> groupUuid,
     groupId |-> ann.groupId,
     annType |-> ann.type,
     selector |-> formatPointsAsSelector(ann),
     body |-> MapSeq(ann.entries, bodyFromEntry),
     nameVersions |-> ann.nameVersions,
     groupVersions |-> ann.groupVersions]

exportAnnotations(doc, now) ==
    LET GroupUuidOf(ann) ==
            LET SameId(g) == g.id = ann.groupId
                idx == FindFirst(doc.groups, SameId)
            IN IF idx = 0 THEN 0 ELSE doc.groups[idx].uuid
    IN [isNull |-> FALSE, context |-> TRUE, type |-> "AnnotationCollection",
        upAxis |-> "Z",
        w3cGroups |-> doc.groups,
        items |-> [i \in 1..Len(doc.annotations) |->
                      convertToW3CAnnotation(doc.annotations[i],
                          GroupUuidOf(doc.annotations[i]), now)],
        modelInfo |-> MapSeq(doc.modelInfoEntries, bodyFromEntry),
        hasGroups |-> FALSE, hasAnnotations |-> FALSE,
        groups |-> <<>>, annotations |-> <<>>, legacyModelInfo |-> <<>>]

(***************************************************************************)
(* The state machine.                                                      *)
(***************************************************************************)
CurrentDoc == DocOf(groups, annotations, modelInfoEntries, idCounter, uuidCounter)

NoStatus == [kind |-> "none", added |-> 0, merged |-> 0, unchanged |-> 0]

EmptyData ==
    [isNull |-> FALSE, context |-> TRUE, type |-> "AnnotationCollection",
     upAxis |-> "Z", w3cGroups |-> <<>>, items |-> <<>>, modelInfo |-> <<>>,
     hasGroups |-> FALSE, hasAnnotations |-> FALSE,
     groups |-> <<>>, annotations |-> <<>>, legacyModelInfo |-> <<>>]

\* The application has started: createDefaultGroup() has run, nothing is
\* annotated and no file has been read.
(***************************************************************************)
(* editing.js: the drawing tools.                                          *)
(*                                                                         *)
(* The running state of the editor is a record ed: the fields of `state`   *)
(* the tools use, the module-level variables of editing.js (paintLoopRAF,  *)
(* hasPendingPaint, pendingPaintPos, pendingPaintShift, highlightBuffer),  *)
(* the annotation popup, and the browser's list of animation frame         *)
(* callbacks in the order they were requested.                             *)
(*                                                                         *)
(* A canvas position is a number: position 0 is off the model (the raycast *)
(* hits nothing), the others hit the model.  paintedFaces is a JavaScript  *)
(* Set, which iterates in insertion order: a sequence without repetition.  *)
(* The highlight buffer is the sequence of triangles written to it, one    *)
(* face id standing for the nine floats of that face; slots past           *)
(* highlightVertexCount / 3 keep what was written there before.            *)
(* ed.frameRunning is what is left to run of the frame in progress; it is  *)
(* empty between frames.  ed.log counts what a handler or a frame did:     *)
(* calls of paintAtPoint, writes of faces to the highlight buffer, how     *)
(* many of these were full rebuilds, the positions painted at, and the     *)
(* indices of the projected edges it computed.  draggedAnnotation is the   *)
(* numeric id of the annotation whose marker is being dragged (0: none).   *)
(***************************************************************************)
Positions == 0..2

FACE_ID_MULTIPLIER == 10000000

\* A face id that adds the two indices.
faceIdOfSum(meshIndex, triIndex) == meshIndex + triIndex

\* paintAtPoint's numeric id of a triangle of a mesh, and the two indices
\* the readers of an id take out of it.
faceIdOf(meshIndex, triIndex) == meshIndex * FACE_ID_MULTIPLIER + triIndex

meshIdxOf(faceId) == faceId \div FACE_ID_MULTIPLIER

faceIdxOf(faceId) == faceId % FACE_ID_MULTIPLIER

\* The model on the canvas: the triangles, as <<mesh index, triangle
\* index>>, whose centre lies within the brush radius of a position, in the
\* order the traversal visits them.  Positions 3 and 4 are over a second
\* mesh and over the last triangle a face id has room for.
Scene(pos) ==
    CASE pos = 1 -> << <<0, 1>> >>
      [] pos = 2 -> << <<0, 1>>, <<0, 2>> >>
      [] pos = 3 -> << <<1, 1>> >>
      [] pos = 4 -> << <<0, FACE_ID_MULTIPLIER - 1>>, <<1, 0>> >>
      [] OTHER -> <<>>

BrushAt(pos) ==
    [i \in 1..Len(Scene(pos)) |-> faceIdOf(Scene(pos)[i][1], Scene(pos)[i][2])]

\* getIntersection / _paintRaycast: the point of the model under a position.
HitPoint(pos) == <<pos, pos + 1, pos + 2>>

NoPopup == [visible |-> FALSE, type |-> "", points |-> <<>>, faceData |-> <<>>]

NoLog ==
    [paints |-> 0, updates |-> 0, rebuilds |-> 0, positions |-> <<>>,
     projected |-> <<>>]

InitialEditing ==
    [currentTool |-> "none",
     tempPoints |-> <<>>,
     tempProjectedEdges |-> <<>>,
     modelMeshes |-> 1,
     popup |-> NoPopup,
     isPaintingSurface |-> FALSE,
     controlsEnabled |-> TRUE,
     isErasingMode |-> FALSE,
     paintedFaces |-> <<>>,
     pendingFaces |-> <<>>,
     needsFullHighlightRebuild |-> FALSE,
     highlightVertexCount |-> 0,
     surfaceHighlightMesh |-> FALSE,
     surfaceHighlightDirty |-> FALSE,
     surfaceHighlightRAF |-> FALSE,
     highlightBuffer |-> <<>>,
     drawRange |-> 0,
     paintLoopRAF |-> FALSE,
     hasPendingPaint |-> FALSE,
     pendingPaintPos |-> 0,
     pendingPaintShift |-> FALSE,
     frameCallbacks |-> <<>>,
     frameRunning |-> <<>>,
     isDraggingPoint |-> FALSE,
     draggedAnnotation |-> 0,
     draggedPointIndex |-> -1,
     log |-> NoLog]

\* Set.prototype.has, add and delete on an insertion-ordered set.
SetHas(s, x) == \E i \in 1..Len(s) : s[i] = x

SetDelete(s, x) == SelectSeq(s, LAMBDA y : y # x)

\* requestAnimationFrame puts a callback on the list for the next frame;
\* cancelAnimationFrame takes it off that list and off what is left of the
\* list of the frame that is running.
requestAnimationFrame(ed, cb) ==
    [ed EXCEPT !.frameCallbacks = Append(@, cb)]

cancelAnimationFrame(ed, cb) ==
    [ed EXCEPT !.frameCallbacks = SelectSeq(@, LAMBDA c : c # cb),
               !.frameRunning = SelectSeq(@, LAMBDA c : c # cb)]

\* A brush stroke that also repaints faces that are painted already.
paintFaceAgain(ed, faceId) ==
    IF ed.isErasingMode
    THEN IF SetHas(ed.paintedFaces, faceId)
         THEN [ed EXCEPT !.paintedFaces = SetDelete(@, faceId),
                         !.needsFullHighlightRebuild = TRUE]
         ELSE ed
    ELSE [ed EXCEPT !.paintedFaces = Append(SetDelete(@, faceId), faceId),
                    !.pendingFaces = Append(@, faceId)]

\* The body of paintAtPoint for one face inside the brush.
paintFace(ed, faceId) ==
    IF ed.isErasingMode
    THEN IF SetHas(ed.paintedFaces, faceId)
         THEN [ed EXCEPT !.paintedFaces = SetDelete(@, faceId),
                         !.needsFullHighlightRebuild = TRUE]
         ELSE ed
    ELSE IF ~SetHas(ed.paintedFaces, faceId)
         THEN [ed EXCEPT !.paintedFaces = Append(@, faceId),
                         !.pendingFaces = Append(@, faceId)]
         ELSE ed

RECURSIVE paintFaces(_, _, _)
paintFaces(ed, brush, n) ==
    IF n = 0 THEN ed ELSE paintFace(paintFaces(ed, brush, n - 1), brush[n])

scheduleSurfaceHighlight(ed) ==
    IF ed.surfaceHighlightRAF
    THEN [ed EXCEPT !.surfaceHighlightDirty = TRUE]
    ELSE [requestAnimationFrame(ed, "highlight") EXCEPT
             !.surfaceHighlightDirty = TRUE,
             !.surfaceHighlightRAF = TRUE]

Painted(ed, pos) ==
    [ed EXCEPT !.log.paints = @ + 1, !.log.positions = Append(@, pos)]

paintAtPoint(ed, pos) ==
    scheduleSurfaceHighlight(
        paintFaces(Painted(ed, pos), BrushAt(pos), Len(BrushAt(pos))))

\* writeFaceToBuffer at the slot of the given index.
writeFaceToBuffer(buffer, faceId, slot) ==
    IF slot <= Len(buffer) THEN [buffer EXCEPT ![slot] = faceId]
    ELSE Append(buffer, faceId)

RECURSIVE writeFaces(_, _, _, _)
writeFaces(buffer, faces, from, n) ==
    IF n = 0 THEN buffer
    ELSE writeFaceToBuffer(writeFaces(buffer, faces, from, n - 1),
                           faces[n], from + n)

ensureHighlightMesh(ed) ==
    IF ed.surfaceHighlightMesh THEN ed
    ELSE [ed EXCEPT !.surfaceHighlightMesh = TRUE,
                    !.highlightBuffer = <<>>,
                    !.highlightVertexCount = 0,
                    !.drawRange = 0]

BufferWritten(ed) == [ed EXCEPT !.log.updates = @ + 1]

Rebuilt(ed) == [BufferWritten(ed) EXCEPT !.log.rebuilds = @ + 1]

\* A rebuild that writes after what the buffer holds instead of from its start.
rebuildHighlightAfter(ed) ==
    [Rebuilt(ed) EXCEPT
        !.highlightBuffer = writeFaces(@, ed.paintedFaces,
                                       ed.highlightVertexCount \div 3,
                                       Len(ed.paintedFaces)),
        !.highlightVertexCount = @ + 3 * Len(ed.paintedFaces),
        !.drawRange = ed.highlightVertexCount + 3 * Len(ed.paintedFaces)]

rebuildHighlightFull(ed) ==
    [Rebuilt(ed) EXCEPT
        !.highlightBuffer = writeFaces(@, ed.paintedFaces, 0, Len(ed.paintedFaces)),
        !.highlightVertexCount = 3 * Len(ed.paintedFaces),
        !.drawRange = 3 * Len(ed.paintedFaces)]

appendPendingFaces(ed) ==
    IF Len(ed.pendingFaces) = 0 THEN ed
    ELSE [BufferWritten(ed) EXCEPT
            !.highlightBuffer = writeFaces(@, ed.pendingFaces,
                                           ed.highlightVertexCount \div 3,
                                           Len(ed.pendingFaces)),
            !.highlightVertexCount = @ + 3 * Len(ed.pendingFaces),
            !.drawRange = ed.highlightVertexCount + 3 * Len(ed.pendingFaces)]

Flushed(ed) ==
    [ed EXCEPT !.pendingFaces = <<>>, !.needsFullHighlightRebuild = FALSE]

\* An update that rebuilds whenever anything is to be shown.
updateHighlightAlwaysFull(ed) ==
    IF ed.needsFullHighlightRebuild \/ Len(ed.pendingFaces) > 0
    THEN Flushed(rebuildHighlightFull(ed))
    ELSE ed

updateHighlightOf(ed) ==
    IF ed.needsFullHighlightRebuild THEN Flushed(rebuildHighlightFull(ed))
    ELSE IF Len(ed.pendingFaces) > 0 THEN Flushed(appendPendingFaces(ed))
    ELSE ed

updateSurfaceHighlight(ed) ==
    IF Len(ed.paintedFaces) = 0
    THEN Flushed(IF ed.surfaceHighlightMesh
                 THEN [ed EXCEPT !.drawRange = 0, !.highlightVertexCount = 0]
                 ELSE ed)
    ELSE updateHighlightOf(ensureHighlightMesh(ed))

\* The callback scheduleSurfaceHighlight hands to requestAnimationFrame.
highlightCallback(ed) ==
    IF ed.surfaceHighlightDirty
    THEN updateSurfaceHighlight([ed EXCEPT !.surfaceHighlightRAF = FALSE,
                                           !.surfaceHighlightDirty = FALSE])
    ELSE [ed EXCEPT !.surfaceHighlightRAF = FALSE]

\* _paintLoopTick from the point where paintAtPoint has returned.
forceHighlight(ed) ==
    IF ~ed.surfaceHighlightDirty THEN ed
    ELSE updateSurfaceHighlight(
             IF ed.surfaceHighlightRAF
             THEN [cancelAnimationFrame(ed, "highlight") EXCEPT
                      !.surfaceHighlightDirty = FALSE,
                      !.surfaceHighlightRAF = FALSE]
             ELSE [ed EXCEPT !.surfaceHighlightDirty = FALSE])

processPendingPaint(ed) ==
    IF ~ed.hasPendingPaint THEN ed
    ELSE IF ed.pendingPaintPos = 0
         THEN [ed EXCEPT !.hasPendingPaint = FALSE,
                         !.isErasingMode = ed.pendingPaintShift]
         ELSE forceHighlight(
                  paintAtPoint([ed EXCEPT !.hasPendingPaint = FALSE,
                                          !.isErasingMode = ed.pendingPaintShift],
                               ed.pendingPaintPos))

KeptAlive(ed) == [requestAnimationFrame(ed, "paintLoop") EXCEPT !.paintLoopRAF = TRUE]

paintLoopTick(ed) ==
    IF ~ed.isPaintingSurface THEN [ed EXCEPT !.paintLoopRAF = FALSE]
    ELSE KeptAlive(processPendingPaint([ed EXCEPT !.paintLoopRAF = FALSE]))

startPaintLoop(ed) == IF ed.paintLoopRAF THEN ed ELSE KeptAlive(ed)

stopPaintLoop(ed) ==
    IF ed.paintLoopRAF
    THEN [cancelAnimationFrame(ed, "paintLoop") EXCEPT
             !.paintLoopRAF = FALSE, !.hasPendingPaint = FALSE]
    ELSE [ed EXCEPT !.hasPendingPaint = FALSE]

\* The end of finishSurfacePainting and of clearTempSurface: the highlight
\* mesh and the buffer are let go.
highlightReleased(ed) ==
    [ed EXCEPT !.surfaceHighlightMesh = FALSE, !.highlightBuffer = <<>>,
               !.drawRange = 0]

\* A clearing that leaves a requested highlight callback in place.
clearTempSurfaceKeepFrame(ed) ==
    highlightReleased(stopPaintLoop(
        [ed EXCEPT !.paintedFaces = <<>>, !.pendingFaces = <<>>,
                   !.needsFullHighlightRebuild = FALSE,
                   !.highlightVertexCount = 0,
                   !.isPaintingSurface = FALSE,
                   !.surfaceHighlightDirty = FALSE]))

highlightFrameCancelled(ed) ==
    IF ed.surfaceHighlightRAF
    THEN [cancelAnimationFrame(ed, "highlight") EXCEPT !.surfaceHighlightRAF = FALSE]
    ELSE ed

clearTempSurface(ed) ==
    highlightReleased(highlightFrameCancelled(stopPaintLoop(
        [ed EXCEPT !.paintedFaces = <<>>, !.pendingFaces = <<>>,
                   !.needsFullHighlightRebuild = FALSE,
                   !.highlightVertexCount = 0,
                   !.isPaintingSurface = FALSE,
                   !.surfaceHighlightDirty = FALSE])))

\* A face string without the mesh of the face.
faceStringNoMesh(faceId) == "0_" \o ToString(faceIdxOf(faceId))

\* `${meshIdx}_${faceIdx}` of a face id.
faceString(faceId) ==
    ToString(meshIdxOf(faceId)) \o "_" \o ToString(faceIdxOf(faceId))

faceDataOf(paintedFaces) ==
    [i \in 1..Len(paintedFaces) |-> faceString(paintedFaces[i])]

\* The centre finishSurfacePainting computes from the painted faces.
surfaceCenter(paintedFaces) == <<Len(paintedFaces), 0, 0>>

openAnnotationPopup(ed, type, points, extraData) ==
    [ed EXCEPT !.popup = [visible |-> TRUE, type |-> type, points |-> points,
                          faceData |-> IF type = "surface" THEN extraData
                                       ELSE <<>>]]

finishSurfacePainting(ed) ==
    IF Len(ed.paintedFaces) = 0 THEN clearTempSurface(ed)
    ELSE stopPaintLoop(
            [highlightReleased(
                openAnnotationPopup(ed, "surface",
                                    <<surfaceCenter(ed.paintedFaces)>>,
                                    faceDataOf(ed.paintedFaces)))
             EXCEPT !.highlightVertexCount = 0,
                    !.paintedFaces = <<>>,
                    !.pendingFaces = <<>>,
                    !.needsFullHighlightRebuild = FALSE,
                    !.isPaintingSurface = FALSE])

clearTempDrawing(ed) ==
    clearTempSurface([ed EXCEPT !.tempPoints = <<>>,
                                !.tempProjectedEdges = <<>>])

\* updateTempLine: the projected edge between two consecutive points is
\* cached once a later point has been placed.
EdgeBetween(a, b) == <<a, b>>

\* An edge that is cached is used as it is; one that is not is computed,
\* and cached unless it is the last.  Without a mesh nothing is computed.
updateTempLine(ed) ==
    IF Len(ed.tempPoints) < 2 \/ ed.modelMeshes = 0 THEN ed
    ELSE [ed EXCEPT !.tempProjectedEdges =
            [i \in 1..Max(Len(ed.tempProjectedEdges),
                          Len(ed.tempPoints) - 2) |->
                IF i <= Len(ed.tempProjectedEdges) THEN ed.tempProjectedEdges[i]
                ELSE EdgeBetween(ed.tempPoints[i], ed.tempPoints[i + 1])]]

\* As undoLastPoint, leaving the cached edges.
undoLastPointKeepingEdges(ed) ==
    IF Len(ed.tempPoints) = 0 THEN ed
    ELSE updateTempLine(
            [ed EXCEPT !.tempPoints = SubSeq(@, 1, Len(@) - 1)])

\* undoLastPoint: the last point is removed, and the last cached edge if
\* there are as many cached edges as points are left, or more.
undoLastPoint(ed) ==
    IF Len(ed.tempPoints) = 0 THEN ed
    ELSE updateTempLine(
            [ed EXCEPT
                !.tempPoints = SubSeq(@, 1, Len(@) - 1),
                !.tempProjectedEdges =
                    IF Len(@) > 0 /\ Len(@) >= Len(ed.tempPoints) - 1
                    THEN SubSeq(@, 1, Len(@) - 1)
                    ELSE @])

\* setTool: the tool changes; nothing that was being drawn is touched.
setTool(ed, tool) == [ed EXCEPT !.currentTool = tool]

onCanvasMouseDown(ed, pos, shift) ==
    IF ed.currentTool = "surface"
    THEN startPaintLoop([ed EXCEPT !.isPaintingSurface = TRUE,
                                   !.controlsEnabled = FALSE,
                                   !.pendingPaintPos = pos,
                                   !.pendingPaintShift = shift,
                                   !.hasPendingPaint = TRUE])
    ELSE ed

onCanvasMouseMove(ed, pos, shift) ==
    IF ed.isPaintingSurface /\ ed.currentTool = "surface"
    THEN [ed EXCEPT !.pendingPaintPos = pos,
                    !.pendingPaintShift = shift,
                    !.hasPendingPaint = TRUE]
    ELSE ed

onCanvasMouseUp(ed) ==
    IF ed.isPaintingSurface
    THEN stopPaintLoop([ed EXCEPT !.isPaintingSurface = FALSE,
                                  !.controlsEnabled = TRUE])
    ELSE ed

onCanvasClick(ed, pos, shift) ==
    IF ed.currentTool = "none" \/ pos = 0 THEN ed
    ELSE CASE ed.currentTool = "point" ->
                setTool(openAnnotationPopup(ed, "point", <<HitPoint(pos)>>, <<>>),
                        "none")
           [] ed.currentTool \in {"line", "polygon"} ->
                updateTempLine([ed EXCEPT !.tempPoints = Append(@, HitPoint(pos))])
           [] OTHER ->
                paintAtPoint([ed EXCEPT !.isErasingMode = shift], pos)

\* A double click that commits a line of one point and a polygon of two.
onCanvasDblClickEarly(ed) ==
    CASE ed.currentTool = "line" /\ Len(ed.tempPoints) >= 1 ->
            setTool(openAnnotationPopup(ed, "line", ed.tempPoints, <<>>), "none")
      [] ed.currentTool = "polygon" /\ Len(ed.tempPoints) >= 2 ->
            setTool(openAnnotationPopup(ed, "polygon", ed.tempPoints, <<>>), "none")
      [] ed.currentTool = "surface" /\ Len(ed.paintedFaces) > 0 ->
            setTool(finishSurfacePainting(ed), "none")
      [] OTHER -> ed

onCanvasDblClick(ed) ==
    CASE ed.currentTool = "line" /\ Len(ed.tempPoints) >= 2 ->
            setTool(openAnnotationPopup(ed, "line", ed.tempPoints, <<>>), "none")
      [] ed.currentTool = "polygon" /\ Len(ed.tempPoints) >= 3 ->
            setTool(openAnnotationPopup(ed, "polygon", ed.tempPoints, <<>>), "none")
      [] ed.currentTool = "surface" /\ Len(ed.paintedFaces) > 0 ->
            setTool(finishSurfacePainting(ed), "none")
      [] OTHER -> ed

\* The keydown listener for Escape, no overlay being open.
onEscape(ed) ==
    clearTempDrawing(setTool([ed EXCEPT !.popup.visible = FALSE], "none"))

\* The click listener of the popup's Cancel button.
onPopupCancel(ed) == clearTempDrawing([ed EXCEPT !.popup.visible = FALSE])

\* A save that writes nothing to the document.
newAnnotationDropped(anns, ann) == anns

newAnnotationPushed(anns, ann) == Append(anns, ann)

\* The annotation saveAnnotation builds from the popup and its form.
newAnnotation(popup, name, groupId, content, id, firstUuid, now) ==
    [id |-> id, uuid |-> UuidBase + firstUuid + 1, type |-> popup.type,
     name |-> IF name = "" THEN "Unnamed" ELSE name,
     groupId |-> groupId, points |-> popup.points,
     faceData |-> popup.faceData, boxData |-> NoBox,
     entries |-> <<[uuid |-> UuidBase + firstUuid + 2,
                    description |-> content.value, author |-> content.creator,
                    timestamp |-> now, modified |-> 0, links |-> content.url,
                    versions |-> <<>>]>>,
     nameVersions |-> <<>>, groupVersions |-> <<>>]

\* saveAnnotation for a new annotation, as far as the editor goes.
popupSaved(ed) == clearTempDrawing([ed EXCEPT !.popup.visible = FALSE])

\* The callbacks of one frame, run in the order they were requested; a
\* callback cancelled by an earlier one of the same frame is not run.
runCallback(ed, cb) ==
    IF cb = "paintLoop" THEN paintLoopTick(ed) ELSE highlightCallback(ed)

runNextCallback(ed) ==
    IF Len(ed.frameRunning) = 0 THEN ed
    ELSE runCallback([ed EXCEPT !.frameRunning = Tail(@)], Head(ed.frameRunning))

runFrame(ed) ==
    runNextCallback(runNextCallback(
        [ed EXCEPT !.frameRunning = ed.frameCallbacks,
                   !.frameCallbacks = <<>>]))

\* No document: before any file is read, and for a file that was not exported here.
NoDoc == DocOf(<<>>, <<>>, <<>>, 0, 0)

Init ==
    /\ groups = <<[id |-> 1, uuid |-> UuidBase + 1, name |-> "Default"]>>
    /\ annotations = <<>>
    /\ modelInfoEntries = <<>>
    /\ idCounter = 1
    /\ uuidCounter = 1
    /\ clock = MaxTime
    /\ status = NoStatus
    /\ importsDone = 0
    /\ lastImport = [pre |-> NoDoc, data |-> EmptyData]
    /\ exportedFrom = NoDoc
    /\ editing = InitialEditing
    /\ pointer = [down |-> FALSE, inside |-> TRUE, pos |-> 0, clicked |-> FALSE]
    /\ lastOp = [op |-> "none", pre |-> InitialEditing, annotations |-> <<>>]

\* The document and the status line become what an import left behind.
Installed(r) ==
    /\ groups' = r.doc.groups
    /\ annotations' = r.doc.annotations
    /\ modelInfoEntries' = r.doc.modelInfoEntries
    /\ idCounter' = r.doc.idCounter
    /\ uuidCounter' = r.doc.uuidCounter
    /\ status' = r.status

\* reader.onload of importAnnotations, for a file whose JSON parses to data.
ReadFile(data) ==
    /\ Installed(importAnnotations(CurrentDoc, data, clock))
    /\ lastImport' = [pre |-> CurrentDoc, data |-> data]

ImportFile(data) ==
    /\ importsDone < MaxImports
    /\ ReadFile(data)
    /\ importsDone' = importsDone + 1
    /\ exportedFrom' = NoDoc
    /\ UNCHANGED <<clock, editorVars>>

(***************************************************************************)
(* The files offered to the import.  Each family varies the fields one     *)
(* part of the merge looks at and keeps the others fixed.                  *)
(***************************************************************************)
ContentA == [value |-> "A", creator |-> "ann", url |-> <<>>]
ContentB == [value |-> "B", creator |-> "bob", url |-> <<"http://b">>]
Contents == {ContentA, ContentB}

Times == 1..MaxTime

Snapshot(c, t) ==
    [value |-> c.value, creator |-> c.creator, url |-> c.url, savedAt |-> t]

\* Version histories as an edit sequence leaves them: ascending savedAt.
VersionLists ==
    {<<>>}
    \cup {<<Snapshot(ContentA, t)>> : t \in Times}
    \cup {<<Snapshot(ContentB, 1), Snapshot(ContentA, MaxTime)>>}

Body(u, c, created, modified, versions) ==
    [entryUuid |-> u, value |-> c.value, creator |-> c.creator,
     created |-> created, modified |-> modified, url |-> c.url,
     versions |-> versions]

PointSelector(p) == [NoSelector EXCEPT !.kind = "point", !.pts = <<p>>]

\* An item for annotation UUID u with the given bodies and nothing else of
\* interest.
PlainItem(u, bodies) ==
    [malformed |-> FALSE, uuid |-> u, created |-> 1, name |-> "n1",
     groupUuid |-> 0, groupId |-> 0, annType |-> "point",
     selector |-> PointSelector(<<1, 2, 3>>), body |-> bodies,
     nameVersions |-> <<>>, groupVersions |-> <<>>]

W3CFile(items) == [EmptyData EXCEPT !.items = items]

\* One annotation, one entry: every content, modification time and history.
EntryBodies ==
    {Body(11, c, 1, m, v) : c \in Contents, m \in {0} \cup (2..MaxTime),
                            v \in VersionLists}
    \cup {Body(0, c, 1, m, <<>>) : c \in Contents, m \in {0} \cup (2..MaxTime)}
    \cup {Body(11, c, 2, 0, <<>>) : c \in Contents}

EntryFiles == {W3CFile(<<PlainItem(1, <<b>>)>>) : b \in EntryBodies}

Next == \E data \in EntryFiles : ImportFile(data)

Spec == Init /\ [][Next]_vars

\* Entry matching: annotation 1 or the model info, with one or two bodies
\* that differ in UUID, content, author and creation time.
ContentC == [value |-> "A", creator |-> "bob", url |-> <<>>]

MatchBodies1 ==
    {Body(11, ContentA, 1, 0, <<>>), Body(12, ContentA, 1, MaxTime, <<>>),
     Body(0, ContentA, 1, 0, <<>>), Body(0, ContentB, 1, 0, <<>>)}

MatchBodies2 ==
    {Body(12, ContentB, 1, 2, <<>>), Body(13, ContentA, 2, 0, <<>>),
     Body(0, ContentA, 1, 0, <<>>), Body(0, ContentC, 1, 0, <<>>)}

\* Two bodies of one export never carry the same entry UUID.
MatchBodyLists ==
    {<<b>> : b \in MatchBodies1 \cup MatchBodies2}
    \cup {bs \in {<<b1, b2>> : b1 \in MatchBodies1, b2 \in MatchBodies2} :
             bs[1].entryUuid = 0 \/ bs[1].entryUuid # bs[2].entryUuid}

ModelInfoFile(bodies) == [EmptyData EXCEPT !.modelInfo = bodies]

MatchFiles ==
    {W3CFile(<<PlainItem(1, bs)>>) : bs \in MatchBodyLists}
    \cup {ModelInfoFile(bs) : bs \in MatchBodyLists}

NextMatching == \E data \in MatchFiles : ImportFile(data)

SpecMatching == Init /\ [][NextMatching]_vars

\* Annotation matching and metadata: annotations 1 (line), 2 (surface),
\* 3 (box) and annotations without UUID (point), each in two variants that
\* differ in name, group and geometry, with one entry last modified at m.
\* Variant 2 sits in group G2, which the file then lists.
GroupG2 == [id |-> 7, uuid |-> 2, name |-> "G2"]

AnnSelector(u, v) ==
    CASE u = 1 -> [NoSelector EXCEPT
                      !.kind = "polyline",
                      !.pts = <<<<1, 2, 3>>, IF v = 1 THEN <<4, 5, 6>>
                                             ELSE <<7, 8, 9>>>>]
      [] u = 2 -> [NoSelector EXCEPT
                      !.kind = "faces",
                      !.faces = IF v = 1 THEN <<"0_1">> ELSE <<"0_1", "0_2">>,
                      !.pts = <<<<v, 2, 3>>>>]
      [] u = 3 -> [NoSelector EXCEPT
                      !.kind = "box", !.pts = <<<<v, 2, 3>>>>,
                      !.size = <<1, 2, 3>>, !.rot = <<0, 0, v>>]
      [] OTHER -> PointSelector(<<v, 2, 3>>)

AnnItem(u, v, m) ==
    [malformed |-> FALSE, uuid |-> u, created |-> 1,
     name |-> IF v = 1 THEN "n1" ELSE "n2",
     groupUuid |-> IF v = 1 THEN 0 ELSE GroupG2.uuid,
     groupId |-> IF v = 1 THEN 0 ELSE GroupG2.id,
     annType |-> CASE u = 1 -> "line" [] u = 2 -> "surface" [] u = 3 -> "box"
                   [] OTHER -> "point",
     selector |-> AnnSelector(u, v),
     body |-> <<Body(IF u = 0 THEN 0 ELSE 10 + u, ContentA, 1, m, <<>>)>>,
     nameVersions |-> IF m = 0 THEN <<>>
                      ELSE <<[value |-> IF v = 1 THEN "n2" ELSE "n1",
                              savedAt |-> m]>>,
     groupVersions |-> IF m = 0 THEN <<>>
                       ELSE <<[groupId |-> IF v = 1 THEN GroupG2.id ELSE 1,
                               savedAt |-> m]>>]

AnnFile(items, upAxis) ==
    [EmptyData EXCEPT
        !.items = items,
        !.upAxis = upAxis,
        !.w3cGroups = IF \E i \in 1..Len(items) : items[i].groupUuid # 0
                      THEN <<GroupG2>> ELSE <<>>]

AnnotationFiles ==
    {AnnFile(<<AnnItem(u, v, m)>>, "Z") :
        u \in 0..3, v \in 1..2, m \in {0} \cup (2..MaxTime)}
    \cup {AnnFile(<<AnnItem(p[1], 1, 0), AnnItem(p[2], 2, MaxTime)>>, "Z") :
             p \in {<<1, 2>>, <<2, 3>>, <<0, 0>>, <<0, 1>>, <<3, 1>>}}
    \cup {AnnFile(<<AnnItem(1, 2, MaxTime)>>, "Y"),
          AnnFile(<<AnnItem(3, 1, 2)>>, "")}

NextAnnotations == \E data \in AnnotationFiles : ImportFile(data)

SpecAnnotations == Init /\ [][NextAnnotations]_vars

\* Group matching: files listing one or two groups that share or miss the
\* UUIDs and names of the local groups, and one new annotation placed in the
\* first of them.
GroupChoices ==
    {[id |-> 5, uuid |-> 0, name |-> "Default"],
     [id |-> 5, uuid |-> 0, name |-> "G2"],
     [id |-> 5, uuid |-> 2, name |-> "G2"],
     [id |-> 6, uuid |-> 2, name |-> "Default"],
     [id |-> 5, uuid |-> UuidBase + 1, name |-> "Renamed"],
     [id |-> 6, uuid |-> 3, name |-> "Default"],
     [id |-> 6, uuid |-> 0, name |-> ""]}

GroupedItem(g) ==
    [PlainItem(0, <<Body(0, ContentA, 1, 0, <<>>)>>) EXCEPT
        !.groupUuid = g.uuid, !.groupId = g.id]

GroupFile(gs) ==
    [EmptyData EXCEPT !.w3cGroups = gs, !.items = <<GroupedItem(gs[1])>>]

GroupFiles ==
    {GroupFile(<<g>>) : g \in GroupChoices}
    \cup {GroupFile(<<g1, g2>>) : g1 \in GroupChoices, g2 \in GroupChoices}

NextGroups == \E data \in GroupFiles : ImportFile(data)

SpecGroups == Init /\ [][NextGroups]_vars

\* Files in the legacy format: an annotation as the application holds it.
LegacyEntry(u, c, t) ==
    [uuid |-> u, description |-> c.value, author |-> c.creator,
     timestamp |-> t, modified |-> 0, links |-> c.url, versions |-> <<>>]

LegacyAnnotation(u, name, groupId, entries) ==
    [id |-> 9, uuid |-> u, type |-> "point", name |-> name,
     groupId |-> groupId, points |-> <<<<1, 2, 3>>>>, faceData |-> <<>>,
     boxData |-> NoBox, entries |-> entries, nameVersions |-> <<>>,
     groupVersions |-> <<>>]

LegacyFile(gs, as) ==
    [EmptyData EXCEPT !.context = FALSE, !.type = "",
                      !.hasGroups = TRUE, !.hasAnnotations = TRUE,
                      !.groups = gs, !.annotations = as]

\* Rejections: files of no known shape, and collections with an item that
\* is not an object, next to files that are in order.
GoodItem(u) == PlainItem(u, <<Body(10 + u, ContentA, 1, 0, <<>>)>>)

NullItem == [PlainItem(0, <<>>) EXCEPT !.malformed = TRUE]

UnknownShapes ==
    {[W3CFile(<<GoodItem(1)>>) EXCEPT !.context = FALSE],
     [W3CFile(<<GoodItem(2)>>) EXCEPT !.type = "Annotation"],
     [EmptyData EXCEPT !.context = FALSE, !.type = ""],
     [EmptyData EXCEPT !.context = FALSE, !.type = "", !.hasGroups = TRUE,
                       !.groups = <<GroupG2>>],
     [EmptyData EXCEPT !.context = FALSE, !.type = "", !.hasAnnotations = TRUE,
                       !.annotations =
                           <<LegacyAnnotation(1, "n1", 1,
                                 <<LegacyEntry(11, ContentA, 1)>>)>>],
     [EmptyData EXCEPT !.isNull = TRUE, !.context = FALSE, !.type = ""]}

RejectFiles ==
    UnknownShapes
    \cup {W3CFile(items) :
             items \in {<<GoodItem(1)>>, <<GoodItem(2)>>, <<GoodItem(3)>>,
                        <<GoodItem(1), GoodItem(2)>>,
                        <<NullItem>>, <<GoodItem(1), NullItem>>,
                        <<NullItem, GoodItem(2)>>,
                        <<GoodItem(1), NullItem, GoodItem(2)>>,
                        <<GoodItem(3), NullItem, GoodItem(1)>>}}
    \cup {ModelInfoFile(<<Body(21, ContentA, 1, 0, <<>>)>>),
          LegacyFile(<<GroupG2>>,
                     <<LegacyAnnotation(4, "n1", GroupG2.id,
                           <<LegacyEntry(0, ContentB, 1)>>)>>)}

NextRejects == \E data \in RejectFiles : ImportFile(data)

SpecRejects == Init /\ [][NextRejects]_vars

\* Copies: a document is built from W3C and legacy files and then exported
\* and read back.
CopySeedFiles ==
    {AnnFile(<<AnnItem(1, 2, MaxTime)>>, "Z"),
     AnnFile(<<AnnItem(2, 1, 0), AnnItem(3, 2, MaxTime)>>, "Z"),
     AnnFile(<<AnnItem(0, 1, 2)>>, "Z"),
     W3CFile(<<PlainItem(1, <<Body(11, ContentB, 1, MaxTime,
                                   <<Snapshot(ContentA, 2)>>),
                              Body(12, ContentA, 2, 0, <<>>)>>)>>),
     ModelInfoFile(<<Body(21, ContentA, 1, 2, <<Snapshot(ContentB, 1)>>)>>),
     LegacyFile(<<>>, <<LegacyAnnotation(1, "n1", 1,
                            <<LegacyEntry(11, ContentA, 1)>>)>>),
     LegacyFile(<<>>, <<LegacyAnnotation(1, "n1", 1,
                            <<LegacyEntry(11, ContentA, 1),
                              LegacyEntry(12, ContentB, 2)>>)>>),
     LegacyFile(<<GroupG2>>, <<LegacyAnnotation(0, "n2", GroupG2.id,
                                   <<LegacyEntry(0, ContentB, 1)>>)>>)}

\* exportAnnotations followed by importAnnotations of the file it wrote.
ReimportExport ==
    /\ importsDone <= MaxImports
    /\ ReadFile(exportAnnotations(CurrentDoc, clock))
    /\ importsDone' = MaxImports + 1
    /\ exportedFrom' = CurrentDoc
    /\ UNCHANGED <<clock, editorVars>>

NextCopy ==
    \/ \E data \in CopySeedFiles : ImportFile(data)
    \/ ReimportExport

SpecCopy == Init /\ [][NextCopy]_vars

\* Round trips: a document is built from W3C and legacy files, exported, and
\* the file is read by a session that has just started.  The new session
\* holds only the Default group createDefaultGroup made for it, with an id
\* and a UUID of its own.
FreshDoc(id, uuidCount) ==
    DocOf(<<[id |-> id, uuid |-> UuidBase + uuidCount, name |-> "Default"]>>,
          <<>>, <<>>, id, uuidCount)

ReadIntoFresh(doc, data) ==
    /\ Installed(importAnnotations(FreshDoc(doc.idCounter + 1, doc.uuidCounter + 1),
                                   data, clock))
    /\ lastImport' = [pre |-> FreshDoc(doc.idCounter + 1, doc.uuidCounter + 1),
                      data |-> data]
    /\ exportedFrom' = doc

\* exportAnnotations here, importAnnotations of the file in a new session.
ExportIntoEmpty ==
    /\ importsDone <= MaxImports
    /\ ReadIntoFresh(CurrentDoc, exportAnnotations(CurrentDoc, clock))
    /\ importsDone' = MaxImports + 1
    /\ UNCHANGED <<clock, editorVars>>

NextRoundTrip ==
    \/ \E data \in CopySeedFiles : ImportFile(data)
    \/ ExportIntoEmpty

SpecRoundTrip == Init /\ [][NextRoundTrip]_vars

\* Exchanges: a colleague's session has read two files; each of the two
\* sessions exports its document and imports the file of the other.  The
\* colleague's document after the exchange is kept in exportedFrom, and
\* lastImport holds the document here before it and the colleague's file.
\* The files are W3C collections with one entry in every content and time,
\* with two entries, of another annotation, and the annotation in the
\* legacy format.
ExchangeFiles ==
    {W3CFile(<<PlainItem(1, <<Body(11, c, 1, m, <<>>)>>)>>) :
        c \in Contents, m \in {0, 2, MaxTime}}
    \cup {W3CFile(<<PlainItem(1, <<Body(11, c, MaxTime, 0, <<>>)>>)>>) :
              c \in Contents}
    \cup {W3CFile(<<PlainItem(1, <<Body(11, ContentB, 1, 2,
                                        <<Snapshot(ContentA, 2)>>),
                                   Body(12, ContentA, 2, 0, <<>>)>>)>>),
          W3CFile(<<PlainItem(2, <<Body(11, ContentB, 1, 2, <<>>)>>)>>),
          LegacyFile(<<>>, <<LegacyAnnotation(1, "n1", 1,
                                 <<LegacyEntry(11, ContentA, 1)>>)>>)}

OtherSession(d1, d2) ==
    importAnnotations(
        importAnnotations(FreshDoc(idCounter + 1, uuidCounter + 1), d1,
                          clock).doc,
        d2, clock).doc

Exchange(d1, d2) ==
    /\ importsDone <= MaxImports
    /\ ReadFile(exportAnnotations(OtherSession(d1, d2), clock))
    /\ exportedFrom' =
          importAnnotations(OtherSession(d1, d2),
                            exportAnnotations(CurrentDoc, clock), clock).doc
    /\ importsDone' = MaxImports + 1
    /\ UNCHANGED <<clock, editorVars>>

NextExchange ==
    \/ \E data \in ExchangeFiles : ImportFile(data)
    \/ \E d1, d2 \in ExchangeFiles : Exchange(d1, d2)

SpecExchange == Init /\ [][NextExchange]_vars

(***************************************************************************)
(* The editor: the canvas listeners of event-listeners.js, the keyboard,   *)
(* the popup buttons and the browser's animation frames.                   *)
(*                                                                         *)
(* The browser dispatches mouseup, click and, for the second click of a    *)
(* double click, dblclick one after the other, with no frame in between:   *)
(* Release is the three of them.  No listener is registered for the        *)
(* pointer leaving the canvas, and a button released off the canvas sends  *)
(* the canvas nothing.                                                     *)
(***************************************************************************)
Tools == {"point", "line", "polygon", "surface"}

Cleared(ed) == [ed EXCEPT !.log = NoLog]

Did(op) ==
    lastOp' = [op |-> op, pre |-> Cleared(editing), annotations |-> annotations]

\* A toolbar button.
SelectTool(tool) ==
    /\ ~pointer.down
    /\ editing' = setTool(Cleared(editing), tool)
    /\ pointer' = [pointer EXCEPT !.clicked = FALSE]
    /\ Did("setTool")
    /\ UNCHANGED docVars

PressEscape ==
    /\ editing' = onEscape(Cleared(editing))
    /\ pointer' = [pointer EXCEPT !.clicked = FALSE]
    /\ Did("escape")
    /\ UNCHANGED docVars

MouseDown(shift) ==
    /\ ~pointer.down
    /\ pointer.inside
    /\ editing' = onCanvasMouseDown(Cleared(editing), pointer.pos, shift)
    /\ pointer' = [pointer EXCEPT !.down = TRUE]
    /\ Did("mousedown")
    /\ UNCHANGED docVars

\* The pointer moves over the canvas, or comes back to it.
MouseMove(pos, shift) ==
    /\ pos # pointer.pos \/ ~pointer.inside
    /\ editing' = onCanvasMouseMove(Cleared(editing), pos, shift)
    /\ pointer' = [pointer EXCEPT !.pos = pos, !.inside = TRUE, !.clicked = FALSE]
    /\ Did("mousemove")
    /\ UNCHANGED docVars

MouseLeave ==
    /\ pointer.inside
    /\ editing' = Cleared(editing)
    /\ pointer' = [pointer EXCEPT !.inside = FALSE, !.clicked = FALSE]
    /\ Did("leave")
    /\ UNCHANGED docVars

releaseHandlers(ed, pos, shift, double) ==
    IF double THEN onCanvasDblClick(onCanvasClick(onCanvasMouseUp(ed), pos, shift))
    ELSE onCanvasClick(onCanvasMouseUp(ed), pos, shift)

\* The button is released over the canvas.
Release(shift, double) ==
    /\ pointer.down
    /\ pointer.inside
    /\ double => pointer.clicked
    /\ editing.currentTool = "surface" /\ pointer.pos # 0 =>
          Len(editing.pendingFaces) < MaxPending
    /\ editing.currentTool \in {"line", "polygon"} /\ pointer.pos # 0 =>
          Len(editing.tempPoints) < MaxPoints
    /\ editing' = releaseHandlers(Cleared(editing), pointer.pos, shift, double)
    /\ pointer' = [pointer EXCEPT !.down = FALSE, !.clicked = ~double]
    /\ Did(IF double THEN "dblclick" ELSE "click")
    /\ UNCHANGED docVars

\* The button is released off the canvas.
ReleaseOutside ==
    /\ pointer.down
    /\ ~pointer.inside
    /\ editing' = Cleared(editing)
    /\ pointer' = [pointer EXCEPT !.down = FALSE]
    /\ Did("releaseOutside")
    /\ UNCHANGED docVars

\* pointercancel, sent to the canvas wherever the pointer is.
PointerCancel ==
    /\ pointer.down
    /\ editing' = onCanvasMouseUp(Cleared(editing))
    /\ pointer' = [pointer EXCEPT !.down = FALSE, !.clicked = FALSE]
    /\ Did("pointercancel")
    /\ UNCHANGED docVars

\* The browser runs the animation frame callbacks that were requested.
Frame ==
    /\ Len(editing.frameCallbacks) > 0
    /\ editing' = runFrame(Cleared(editing))
    /\ Did("frame")
    /\ UNCHANGED <<pointer, docVars>>

\* The popup's Save button, for a new annotation; wantsProjection is the
\* projection checkbox, shown for lines and polygons.
SavePopup(name, content, wantsProjection) ==
    /\ editing.popup.visible
    /\ ~pointer.down
    /\ Len(annotations) < MaxAnnotations
    /\ annotations' = newAnnotationPushed(annotations,
                          withProjection(
                              newAnnotation(editing.popup, name, groups[1].id,
                                            content, idCounter + 1, uuidCounter,
                                            clock),
                              wantsProjection))
    /\ idCounter' = idCounter + 1
    /\ uuidCounter' = uuidCounter + 2
    /\ editing' = popupSaved(Cleared(editing))
    /\ pointer' = [pointer EXCEPT !.clicked = FALSE]
    /\ Did("save")
    /\ UNCHANGED <<groups, modelInfoEntries, clock, status, importsDone,
                   lastImport, exportedFrom>>

CancelPopup ==
    /\ editing.popup.visible
    /\ ~pointer.down
    /\ editing' = onPopupCancel(Cleared(editing))
    /\ pointer' = [pointer EXCEPT !.clicked = FALSE]
    /\ Did("cancel")
    /\ UNCHANGED docVars

\* Painting: the surface tool, strokes, clicks and frames.
NextPaint ==
    \/ SelectTool("surface")
    \/ \E shift \in BOOLEAN : MouseDown(shift)
    \/ \E pos \in Positions, shift \in BOOLEAN : MouseMove(pos, shift)
    \/ \E shift \in BOOLEAN : Release(shift, FALSE)
    \/ Frame

SpecPaint == Init /\ [][NextPaint]_vars

\* Strokes and how they end: release on and off the canvas and
\* pointercancel.  The browser runs the callbacks that were requested: a
\* frame that is due comes.
NextStroke ==
    \/ SelectTool("surface")
    \/ MouseDown(FALSE)
    \/ \E pos \in {0, 1} : MouseMove(pos, FALSE)
    \/ MouseLeave
    \/ Release(FALSE, FALSE)
    \/ ReleaseOutside
    \/ PointerCancel
    \/ Frame

SpecStroke == Init /\ [][NextStroke]_vars /\ WF_vars(Frame)

\* Drawing and committing: a tool is picked when none is active, points are
\* clicked, a double click commits and the popup is saved or cancelled.
PickTool(tool) == editing.currentTool = "none" /\ SelectTool(tool)

NextDrawing ==
    \/ \E tool \in {"line", "polygon", "surface"} : PickTool(tool)
    \/ MouseDown(FALSE)
    \/ \E pos \in {0, 1} : MouseMove(pos, FALSE)
    \/ \E double \in BOOLEAN : Release(FALSE, double)
    \/ Frame
    \/ \E wantsProjection \in BOOLEAN :
          SavePopup("n1", ContentA, wantsProjection)
    \/ CancelPopup

SpecDrawing == Init /\ [][NextDrawing]_vars

\* Cancelling: the toolbar at any moment, Escape and the popup's Cancel.
NextCancel ==
    \/ \E tool \in {"line", "polygon", "surface"} : SelectTool(tool)
    \/ PressEscape
    \/ MouseDown(FALSE)
    \/ \E pos \in {0, 1} : MouseMove(pos, FALSE)
    \/ \E double \in BOOLEAN : Release(FALSE, double)
    \/ Frame
    \/ CancelPopup

SpecCancel == Init /\ [][NextCancel]_vars

\* Ctrl+Z (Cmd+Z) on the document, the focus not being in a text field:
\* with the line or the polygon tool and a point placed, the last point is
\* undone and the status line says how many are left.
UndoKey ==
    /\ editing.currentTool \in {"line", "polygon"}
    /\ Len(editing.tempPoints) > 0
    /\ editing' = undoLastPoint(Cleared(editing))
    /\ status' = [NoStatus EXCEPT !.kind =
                     IF Len(editing.tempPoints) = 1 THEN "All points removed"
                     ELSE "Point removed"]
    /\ pointer' = [pointer EXCEPT !.clicked = FALSE]
    /\ Did("undoLastPoint")
    /\ UNCHANGED <<groups, annotations, modelInfoEntries, idCounter,
                   uuidCounter, clock, importsDone, lastImport, exportedFrom>>

\* Placing and undoing points: two positions on the model and one off it.
NextUndo ==
    \/ \E tool \in {"line", "polygon"} : SelectTool(tool)
    \/ MouseDown(FALSE)
    \/ \E pos \in {0, 1, 2} : MouseMove(pos, FALSE)
    \/ Release(FALSE, FALSE)
    \/ UndoKey
    \/ PressEscape

SpecUndo == Init /\ [][NextUndo]_vars

\* Painting over two meshes and finishing the surface.
FacePositions == {0, 1, 3, 4}

NextFaces ==
    \/ SelectTool("surface")
    \/ MouseDown(FALSE)
    \/ \E pos \in FacePositions : MouseMove(pos, FALSE)
    \/ \E double \in BOOLEAN : Release(FALSE, double)
    \/ Frame
    \/ CancelPopup

SpecFaces == Init /\ [][NextFaces]_vars

(***************************************************************************)
(* data.js and editing.js: local edits of the document.                    *)
(*                                                                         *)
(* Every edit reads the time once it has started: now is later than every  *)
(* time read before.                                                       *)
(***************************************************************************)
createAnnotationNameVersion(ann, newName, now) ==
    IF ann.name = newName THEN ann
    ELSE [ann EXCEPT !.nameVersions =
             Append(@, [value |-> ann.name, savedAt |-> now])]

createAnnotationGroupVersion(ann, newGroupId, now) ==
    IF ann.groupId = newGroupId THEN ann
    ELSE [ann EXCEPT !.groupVersions =
             Append(@, [groupId |-> ann.groupId, savedAt |-> now])]

\* As metadataSaved, on a copy of the annotation filed under another UUID.
metadataSavedAsCopy(ann, name, groupId, now) ==
    [createAnnotationGroupVersion(createAnnotationNameVersion(ann, name, now),
                                  groupId, now)
        EXCEPT !.name = name, !.groupId = groupId, !.uuid = UuidBase + @]

\* saveAnnotation, editing branch: the version snapshots, then the name and
\* the group.
metadataSaved(ann, name, groupId, now) ==
    [createAnnotationGroupVersion(createAnnotationNameVersion(ann, name, now),
                                  groupId, now)
        EXCEPT !.name = name, !.groupId = groupId]

\* saveAnnotation, editing branch: the projection checkbox of a line or a
\* polygon against what the annotation had.
projectionToggled(ann, wantsProjection) ==
    IF ~IsLineOrPolygon(ann) THEN ann
    ELSE IF wantsProjection /\ ~ProjectionNotOff(ann)
    THEN projected(ann)
    ELSE IF ~wantsProjection /\ ProjectionNotOff(ann)
    THEN With(Without(ann, "projectedEdges"), "surfaceProjection", FALSE)
    ELSE ann

\* saveAnnotation, editing branch: the new entry of 'Add entry'.
entryAdded(ann, isAddingEntry, content, freshUuid, now) ==
    IF isAddingEntry
    THEN [ann EXCEPT !.entries =
             Append(@, [uuid |-> freshUuid,
                        description |-> content.value,
                        author |-> content.creator,
                        timestamp |-> now, modified |-> 0,
                        links |-> content.url, versions |-> <<>>])]
    ELSE ann

saveAnnotationEdit(ann, name, groupId, wantsProjection, isAddingEntry, content, freshUuid, now) ==
    entryAdded(projectionToggled(metadataSaved(ann, name, groupId, now),
                                 wantsProjection),
               isAddingEntry, content, freshUuid, now)

\* As createEntryVersion, putting the snapshot first.
createEntryVersionFirst(entry, newDescription, newAuthor, newLinks, now) ==
    IF /\ entry.description = newDescription
       /\ entry.author = newAuthor
       /\ entry.links = newLinks
    THEN entry
    ELSE [entry EXCEPT !.versions =
             <<[description |-> entry.description, author |-> entry.author,
                links |-> entry.links, savedAt |-> now]>> \o @]

\* Save current state as a version, if anything actually changed.
createEntryVersion(entry, newDescription, newAuthor, newLinks, now) ==
    IF /\ entry.description = newDescription
       /\ entry.author = newAuthor
       /\ entry.links = newLinks
    THEN entry
    ELSE [entry EXCEPT !.versions =
             Append(@, [description |-> entry.description,
                        author |-> entry.author,
                        links |-> entry.links, savedAt |-> now])]

\* saveEntryEdit: the links handed to createEntryVersion are the entry's own.
saveEntryEdit(entry, description, author, now) ==
    [createEntryVersion(entry, description, author, entry.links, now)
        EXCEPT !.description = description, !.author = author,
               !.modified = now]

\* The 'add-link' button of the entry form: entry.links.push(link).
addLink(entry, link) == [entry EXCEPT !.links = Append(@, link)]

\* The remove button of a link: entry.links.splice(linkIndex, 1).
removeLink(entry, linkIndex) ==
    [entry EXCEPT !.links =
        SubSeq(@, 1, linkIndex) \o SubSeq(@, linkIndex + 2, Len(@))]

\* As deleteGroup, moving the annotations to the first group of the list.
deleteGroupToFirst(gs, anns, groupId) ==
    IF Len(gs) <= 1
    THEN [groups |-> gs, annotations |-> anns, refused |-> TRUE]
    ELSE LET Stays(g) == g.id # groupId
         IN [groups |-> SelectSeq(gs, Stays),
             annotations |->
                 [i \in 1..Len(anns) |->
                     IF anns[i].groupId = groupId
                     THEN [anns[i] EXCEPT !.groupId = gs[1].id]
                     ELSE anns[i]],
             refused |-> FALSE]

\* deleteGroup: the last group is not deleted; the annotations of a deleted
\* group go to the first group that is not the deleted one.
deleteGroup(gs, anns, groupId) ==
    IF Len(gs) <= 1
    THEN [groups |-> gs, annotations |-> anns, refused |-> TRUE]
    ELSE LET Stays(g) == g.id # groupId
             targetGroup == gs[FindFirst(gs, Stays)]
         IN [groups |-> SelectSeq(gs, Stays),
             annotations |->
                 [i \in 1..Len(anns) |->
                     IF anns[i].groupId = groupId
                     THEN [anns[i] EXCEPT !.groupId = targetGroup.id]
                     ELSE anns[i]],
             refused |-> FALSE]

\* state.annotations.find(a => a.id === annId), as an index (0: none).
annotationById(anns, annId) ==
    LET SameId(a) == a.id = annId
    IN FindFirst(anns, SameId)

\* onCanvasMouseDown with no tool active, on the marker of point pointIndex
\* of the annotation with id annId.
dragStarted(ed, anns, annId, pointIndex) ==
    IF annotationById(anns, annId) = 0 THEN ed
    ELSE [ed EXCEPT !.isDraggingPoint = TRUE,
                    !.draggedAnnotation = annId,
                    !.draggedPointIndex = pointIndex,
                    !.controlsEnabled = FALSE]

\* The dragged annotation with its point at the new position, and the edges
\* recomputed for it.
pointMoved(ann, pointIndex, newPos) ==
    LET moved == [ann EXCEPT !.points[pointIndex + 1] = newPos]
    IN IF Has(moved, "projectedEdges") /\ ProjectionOn(moved)
       THEN recomputeAdjacentEdges(moved, pointIndex)
       ELSE [ann |-> moved, projected |-> <<>>]

\* onCanvasMouseUp while a point is dragged: the edges of a projected line
\* or polygon are all computed again.
pointReleased(ann) ==
    IF ProjectionOn(ann) /\ IsLineOrPolygon(ann)
    THEN [ann |-> With(ann, "projectedEdges",
                       computeProjectedEdges(ann.points, ann.type = "polygon")),
          projected |-> AllEdges(computeProjectedEdges(ann.points,
                                                       ann.type = "polygon"))]
    ELSE [ann |-> ann, projected |-> <<>>]

dragEnded(ed) ==
    [ed EXCEPT !.isDraggingPoint = FALSE, !.draggedAnnotation = 0,
               !.draggedPointIndex = -1, !.controlsEnabled = TRUE]

(***************************************************************************)
(* Local edits as actions.  An edit of annotation k is the popup opened on *)
(* it and its Save button; the form offers the groups of the document.     *)
(***************************************************************************)
MaxEdits == 2

Now == clock + 1

Edited(op, newStatus) ==
    /\ ~pointer.down
    /\ ~editing.popup.visible
    /\ clock < MaxTime + MaxEdits
    /\ clock' = Now
    /\ status' = newStatus
    /\ editing' = Cleared(editing)
    /\ pointer' = [pointer EXCEPT !.clicked = FALSE]
    /\ Did(op)
    /\ UNCHANGED <<modelInfoEntries, idCounter, importsDone, lastImport,
                   exportedFrom>>

SaveAnnotation(k, name, g, wantsProjection, isAddingEntry) ==
    /\ annotations' = [annotations EXCEPT ![k] =
           saveAnnotationEdit(@, name, groups[g].id, wantsProjection,
                              isAddingEntry, ContentB,
                              UuidBase + uuidCounter + 1, Now)]
    /\ uuidCounter' = uuidCounter + (IF isAddingEntry THEN 1 ELSE 0)
    /\ Edited("saveAnnotation", [NoStatus EXCEPT !.kind = "Saved"])
    /\ UNCHANGED groups

SaveEntryEdit(k, e, content) ==
    /\ annotations' = [annotations EXCEPT ![k].entries[e] =
           saveEntryEdit(@, content.value, content.creator, Now)]
    /\ Edited("saveEntryEdit",
              [NoStatus EXCEPT !.kind =
                  IF createEntryVersion(annotations[k].entries[e], content.value,
                                        content.creator,
                                        annotations[k].entries[e].links, Now)
                         = annotations[k].entries[e]
                  THEN "Entry saved"
                  ELSE "Entry updated (previous version saved)"])
    /\ UNCHANGED <<groups, uuidCounter>>

AddLink(k, e, link) ==
    /\ annotations' = [annotations EXCEPT ![k].entries[e] = addLink(@, link)]
    /\ Edited("addLink", status)
    /\ UNCHANGED <<groups, uuidCounter>>

RemoveLink(k, e, linkIndex) ==
    /\ annotations' = [annotations EXCEPT ![k].entries[e] =
                          removeLink(@, linkIndex)]
    /\ Edited("removeLink", status)
    /\ UNCHANGED <<groups, uuidCounter>>

\* The Delete button of the group popup, and deleteGroup called on a group.
DeleteGroup(g) ==
    /\ groups' = deleteGroup(groups, annotations, groups[g].id).groups
    /\ annotations' = deleteGroup(groups, annotations, groups[g].id).annotations
    /\ Edited("deleteGroup",
              IF deleteGroup(groups, annotations, groups[g].id).refused
              THEN [NoStatus EXCEPT !.kind = "Cannot delete the last group"]
              ELSE status)
    /\ UNCHANGED uuidCounter

\* A marker of annotation k is pressed, with no tool active.
DragStart(k, pointIndex) ==
    /\ ~pointer.down
    /\ ~editing.popup.visible
    /\ editing.currentTool = "none"
    /\ clock < MaxTime + MaxEdits
    /\ editing' = dragStarted(Cleared(editing), annotations,
                              annotations[k].id, pointIndex)
    /\ pointer' = [pointer EXCEPT !.down = TRUE, !.clicked = FALSE]
    /\ Did("dragStart")
    /\ UNCHANGED docVars

\* The pointer moves while a point is dragged; position 0 is off the model.
DragMove(pos) ==
    /\ editing.isDraggingPoint
    /\ LET k == annotationById(annotations, editing.draggedAnnotation)
       IN IF pos = 0
          THEN /\ annotations' = annotations
               /\ editing' = Cleared(editing)
          ELSE /\ annotations' = [annotations EXCEPT ![k] =
                      pointMoved(@, editing.draggedPointIndex,
                                 HitPoint(pos)).ann]
               /\ editing' = [Cleared(editing) EXCEPT !.log.projected =
                      pointMoved(annotations[k], editing.draggedPointIndex,
                                 HitPoint(pos)).projected]
    /\ pointer' = [pointer EXCEPT !.pos = pos]
    /\ Did("dragMove")
    /\ UNCHANGED <<groups, modelInfoEntries, idCounter, uuidCounter, clock,
                   status, importsDone, lastImport, exportedFrom>>

\* The button is released: mouseup, and the click that wasDragging absorbs.
DragEnd ==
    /\ editing.isDraggingPoint
    /\ LET k == annotationById(annotations, editing.draggedAnnotation)
       IN /\ annotations' = [annotations EXCEPT ![k] = pointReleased(@).ann]
          /\ editing' = [dragEnded(Cleared(editing)) EXCEPT !.log.projected =
                            pointReleased(annotations[k]).projected]
    /\ pointer' = [pointer EXCEPT !.down = FALSE, !.clicked = FALSE]
    /\ status' = [NoStatus EXCEPT !.kind = "Point moved"]
    /\ clock' = Now
    /\ Did("dragEnd")
    /\ UNCHANGED <<groups, modelInfoEntries, idCounter, uuidCounter,
                   importsDone, lastImport, exportedFrom>>

(***************************************************************************)
(* Files and specifications for the local edits.  The files hold one line  *)
(* or polygon under a UUID: variant 1 as it was first saved, variant 2     *)
(* after it was renamed, moved to group G2 and its entry rewritten at time *)
(* m elsewhere, with the snapshots those edits leave.  The local clock     *)
(* starts at MaxTime; a file written at MaxTime + 1 is read after a local  *)
(* edit.                                                                   *)
(***************************************************************************)
EditPoints == <<<<1, 2, 3>>, <<4, 5, 6>>, <<7, 8, 9>>, <<10, 11, 12>>>>

EditItem(u, annType, n, v, m) ==
    [malformed |-> FALSE, uuid |-> u, created |-> 1,
     name |-> IF v = 1 THEN "n1" ELSE "n2",
     groupUuid |-> IF v = 1 THEN 0 ELSE GroupG2.uuid,
     groupId |-> IF v = 1 THEN 0 ELSE GroupG2.id,
     annType |-> annType,
     selector |-> [NoSelector EXCEPT
                      !.kind = IF annType = "line" THEN "polyline"
                               ELSE "polygon",
                      !.pts = SubSeq(EditPoints, 1, n)],
     body |-> <<IF v = 1 THEN Body(10 + u, ContentA, 1, 0, <<>>)
                ELSE Body(10 + u, ContentB, 1, m, <<Snapshot(ContentA, m)>>)>>,
     nameVersions |-> IF v = 1 THEN <<>>
                      ELSE <<[value |-> "n1", savedAt |-> m]>>,
     groupVersions |-> IF v = 1 THEN <<>>
                       ELSE <<[groupId |-> 1, savedAt |-> m]>>]

EditFiles ==
    {AnnFile(<<EditItem(1, "line", 2, 1, 0)>>, "Y"),
     AnnFile(<<EditItem(1, "line", 2, 2, 2)>>, "Y"),
     AnnFile(<<EditItem(1, "line", 2, 2, MaxTime + 1)>>, "Y")}

\* The latest time written in a file.  A file is read after it was written:
\* the clocks that stamped it and the local clock are one clock.
FileTime(data) ==
    SeqMax([i \in 1..Len(data.items) |->
               IF data.items[i].malformed THEN 0
               ELSE SeqMax([j \in 1..Len(data.items[i].body) |->
                               Max(data.items[i].body[j].created,
                                   data.items[i].body[j].modified)])])

\* The file input of the edit specifications.
OpenFile(data) == ~pointer.down /\ FileTime(data) <= clock /\ ImportFile(data)

Names == {"n1", "n2"}

Links == {"l1"}

NextEdits ==
    \/ \E data \in EditFiles : OpenFile(data)
    \/ \E k \in 1..Len(annotations), name \in Names, g \in 1..Len(groups),
          isAddingEntry \in BOOLEAN :
          SaveAnnotation(k, name, g, TRUE, isAddingEntry)
    \/ \E k \in 1..Len(annotations) :
          \E e \in 1..Len(annotations[k].entries), content \in Contents :
              SaveEntryEdit(k, e, content)
    \/ \E k \in 1..Len(annotations) :
          \E e \in 1..Len(annotations[k].entries), link \in Links :
              AddLink(k, e, link)
    \/ \E k \in 1..Len(annotations) :
          \E e \in 1..Len(annotations[k].entries) :
              \E linkIndex \in 0..(Len(annotations[k].entries[e].links) - 1) :
                  RemoveLink(k, e, linkIndex)
    \/ \E g \in 1..Len(groups) : DeleteGroup(g)

SpecEdits == Init /\ [][NextEdits]_vars

\* Projected edges: a line of four points; a polygon together with the line
\* as it was edited elsewhere (two points); and the line with three points
\* of a later edit, in a file whose second item is null.
ProjectionFiles ==
    {AnnFile(<<EditItem(1, "line", 4, 1, 0)>>, "Y"),
     AnnFile(<<EditItem(2, "polygon", 3, 1, 0),
               EditItem(1, "line", 2, 2, 2)>>, "Y"),
     AnnFile(<<EditItem(1, "line", 3, 2, MaxTime), NullItem>>, "Y")}

DragPositions == {0, 2}

NextProjection ==
    \/ \E data \in ProjectionFiles : OpenFile(data)
    \/ \E k \in 1..Len(annotations), wantsProjection \in BOOLEAN :
          SaveAnnotation(k, "n2", 1, wantsProjection, FALSE)
    \/ \E g \in 1..Len(groups) : DeleteGroup(g)
    \/ \E k \in 1..Len(annotations) :
          \E pointIndex \in 0..(Len(annotations[k].points) - 1) :
              DragStart(k, pointIndex)
    \/ \E pos \in DragPositions : DragMove(pos)
    \/ DragEnd

SpecProjection == Init /\ [][NextProjection]_vars

(***************************************************************************)
(* model-loader.js: a model file is opened.  The annotations of the model  *)
(* before are discarded (the dialog of handleModelLoad, 'Discard'), the    *)
(* tools reset, and the meshes of the new model are counted; a file        *)
(* without a mesh leaves the mesh list empty.                              *)
(***************************************************************************)
LoadModel(meshCount) ==
    /\ ~pointer.down
    /\ clock < MaxTime + MaxEdits
    /\ clock' = Now
    /\ annotations' = <<>>
    /\ groups' = <<[id |-> idCounter + 1, uuid |-> UuidBase + uuidCounter + 1,
                    name |-> "Default"]>>
    /\ idCounter' = idCounter + 1
    /\ uuidCounter' = uuidCounter + 1
    /\ modelInfoEntries' = <<>>
    /\ editing' = [clearTempDrawing(
                       setTool([Cleared(editing) EXCEPT !.popup.visible = FALSE],
                               "none"))
                   EXCEPT !.modelMeshes = meshCount]
    /\ pointer' = [pointer EXCEPT !.clicked = FALSE]
    /\ status' = [NoStatus EXCEPT !.kind = "Loaded"]
    /\ Did("loadModel")
    /\ UNCHANGED <<importsDone, lastImport, exportedFrom>>

\* Lines whose points lie on the surface, off it and on each other: a short
\* chord to a point one unit off; long chords to points two and four units
\* off; two equal points off the surface; and a line on the surface whose
\* projection is switched off.
SceneItem(u, points) ==
    [EditItem(u, "line", 2, 1, 0) EXCEPT !.selector.pts = points]

AcceptanceFiles ==
    {AnnFile(<<SceneItem(1, <<<<1, 2, 3>>, <<4, 5, 6>>, <<7, 8, 10>>>>)>>, "Y"),
     AnnFile(<<SceneItem(2, <<<<1, 2, 3>>, <<41, 42, 45>>, <<81, 82, 87>>>>)>>,
             "Y"),
     AnnFile(<<SceneItem(3, <<<<1, 2, 5>>, <<1, 2, 5>>>>)>>, "Y"),
     AnnFile(<<With(SceneItem(4, <<<<1, 2, 3>>, <<4, 5, 6>>>>),
                    "surfaceProjection", FALSE)>>, "Y")}

NextAcceptance ==
    \/ \E meshCount \in {0, 1} : LoadModel(meshCount)
    \/ \E data \in AcceptanceFiles : OpenFile(data)
    \/ \E k \in 1..Len(annotations), wantsProjection \in BOOLEAN :
          SaveAnnotation(k, "n2", 1, wantsProjection, FALSE)

SpecAcceptance == Init /\ [][NextAcceptance]_vars

\* Annotations from every source: drawn with the point tool and saved,
\* read from W3C files and read from files of the legacy format, with and
\* without UUIDs.
SourceFiles ==
    {W3CFile(<<GoodItem(1)>>),
     W3CFile(<<GoodItem(1), GoodItem(2)>>),
     W3CFile(<<PlainItem(0, <<Body(0, ContentA, 1, 0, <<>>)>>)>>),
     LegacyFile(<<>>, <<LegacyAnnotation(1, "n1", 1,
                            <<LegacyEntry(11, ContentA, 1)>>)>>),
     LegacyFile(<<GroupG2>>, <<LegacyAnnotation(0, "n2", GroupG2.id,
                                   <<LegacyEntry(0, ContentB, 1)>>)>>)}

NextSources ==
    \/ \E data \in SourceFiles : OpenFile(data)
    \/ PickTool("point")
    \/ MouseDown(FALSE)
    \/ Release(FALSE, FALSE)
    \/ MouseMove(1, FALSE)
    \/ SavePopup("n1", ContentA, FALSE)

SpecSources == Init /\ [][NextSources]_vars

\* Filing: annotations under the default group and under a group of the
\* file, a file whose annotation names a group the file does not list, and
\* a file whose annotation has the group id 'constructor'; names and groups
\* are saved and groups deleted.
FilingFiles ==
    {AnnFile(<<AnnItem(1, 1, 0)>>, "Z"),
     AnnFile(<<AnnItem(1, 2, MaxTime), AnnItem(2, 2, 0)>>, "Z"),
     W3CFile(<<[AnnItem(3, 2, 0) EXCEPT !.groupUuid = 0]>>),
     W3CFile(<<[AnnItem(3, 1, 2) EXCEPT !.groupId = ConstructorKey]>>)}

NextFiling ==
    \/ \E data \in FilingFiles : OpenFile(data)
    \/ \E k \in 1..Len(annotations), name \in Names, g \in 1..Len(groups) :
          SaveAnnotation(k, name, g, TRUE, FALSE)
    \/ \E g \in 1..Len(groups) : DeleteGroup(g)

SpecFiling == Init /\ [][NextFiling]_vars

(***************************************************************************)
(* Vocabulary of the properties: the last import, seen from outside.       *)
(***************************************************************************)
Pre == lastImport.pre
Data == lastImport.data

\* The last file was a W3C collection and its import ran to the end.
MergedW3C == importsDone > 0 /\ status.kind = "import"

\* "Effective timestamp": modified time if present, else creation time.
EffectiveTime(e) == IF e.modified # 0 THEN e.modified ELSE e.timestamp
EffectiveTimeOfBody(b) == IF b.modified # 0 THEN b.modified ELSE b.created

\* Index of the first annotation of list anns with UUID u (0 if none).
AnnIndex(anns, u) ==
    IF \E i \in 1..Len(anns) : anns[i].uuid = u
    THEN CHOOSE i \in 1..Len(anns) :
            anns[i].uuid = u /\ \A j \in 1..(i - 1) : anns[j].uuid # u
    ELSE 0

\* Index of the local entry an imported body is matched to (0 if none):
\* the first with its UUID, failing that the first with equal description,
\* author and creation time.
MatchIndex(entries, b) ==
    LET byUuid == {i \in 1..Len(entries) :
                      b.entryUuid # 0 /\ entries[i].uuid = b.entryUuid}
        byContent == {i \in 1..Len(entries) :
                         /\ entries[i].description = b.value
                         /\ entries[i].author = b.creator
                         /\ entries[i].timestamp = b.created}
        pick(S) == CHOOSE i \in S : \A j \in S : i <= j
    IN IF byUuid # {} THEN pick(byUuid)
       ELSE IF byContent # {} THEN pick(byContent) ELSE 0

\* The last file held one annotation with one entry, the annotation is known
\* locally and the entry is matched to a local entry.
OneEntryMatched ==
    /\ MergedW3C
    /\ Len(Data.items) = 1
    /\ Len(Data.items[1].body) = 1
    /\ AnnIndex(Pre.annotations, Data.items[1].uuid) # 0
    /\ MatchIndex(Pre.annotations[AnnIndex(Pre.annotations,
                      Data.items[1].uuid)].entries, Data.items[1].body[1]) # 0

ImportedBody == Data.items[1].body[1]

\* The matched local entry before the import ...
LocalEntryBefore ==
    LET a == AnnIndex(Pre.annotations, Data.items[1].uuid)
    IN Pre.annotations[a].entries[MatchIndex(Pre.annotations[a].entries,
                                             ImportedBody)]

\* ... and the same entry (same UUID) after it.
LocalEntryAfter ==
    LET a == AnnIndex(Pre.annotations, Data.items[1].uuid)
        es == annotations[a].entries
    IN es[CHOOSE i \in 1..Len(es) : es[i].uuid = LocalEntryBefore.uuid]

ImportedIsNewer == EffectiveTimeOfBody(ImportedBody) > EffectiveTime(LocalEntryBefore)

(***************************************************************************)
(* C1: when an imported entry is matched to a local entry, the local       *)
(* description, author, modified time and links take the imported values   *)
(* if the imported effective timestamp is strictly greater than the local  *)
(* one, and are left exactly as they were if it is equal or older.         *)
(***************************************************************************)
C1_NewerWrites ==
    OneEntryMatched =>
        IF ImportedIsNewer
        THEN /\ LocalEntryAfter.description = ImportedBody.value
             /\ LocalEntryAfter.author = ImportedBody.creator
             /\ LocalEntryAfter.modified = ImportedBody.modified
             /\ LocalEntryAfter.links = ImportedBody.url
        ELSE /\ LocalEntryAfter.description = LocalEntryBefore.description
             /\ LocalEntryAfter.author = LocalEntryBefore.author
             /\ LocalEntryAfter.modified = LocalEntryBefore.modified
             /\ LocalEntryAfter.links = LocalEntryBefore.links

\* A matched entry was overwritten by a strictly newer, different import.
C1_Witness ==
    /\ OneEntryMatched
    /\ ImportedIsNewer
    /\ LocalEntryBefore.description # ImportedBody.value
    /\ LocalEntryBefore.links # ImportedBody.url
    /\ LocalEntryAfter.description = ImportedBody.value

(***************************************************************************)
(* C2: a local entry with description A and modified time t1, merged with  *)
(* an imported entry of the same UUID, description B and modified time     *)
(* t2 > t1, ends with description B and with exactly one new snapshot in   *)
(* its version list, which preserves A and is stamped before t2.           *)
(***************************************************************************)
RemoveAt(s, i) == SubSeq(s, 1, i - 1) \o SubSeq(s, i + 1, Len(s))

C2_Scenario ==
    /\ OneEntryMatched
    /\ LocalEntryBefore.uuid = ImportedBody.entryUuid
    /\ LocalEntryBefore.description = "A"
    /\ ImportedBody.value = "B"
    /\ LocalEntryBefore.modified # 0
    /\ ImportedBody.modified > LocalEntryBefore.modified

\* C2: in that scenario the entry reads B and has exactly one new snapshot,
\* which holds A and is stamped before t2.
C2_NewerWinsAndSnapshots ==
    C2_Scenario =>
        /\ LocalEntryAfter.description = "B"
        /\ \E i \in 1..Len(LocalEntryAfter.versions) :
              /\ LocalEntryAfter.versions[i].description = "A"
              /\ LocalEntryAfter.versions[i].savedAt < ImportedBody.modified
              /\ RemoveAt(LocalEntryAfter.versions, i) = LocalEntryBefore.versions

(***************************************************************************)
(* C3: after merging a matched entry, whichever side wins on content, the  *)
(* local version list is the savedAt-deduplicated, chronologically sorted  *)
(* union of both histories: every snapshot held before is still there,     *)
(* every imported savedAt is represented, and savedAt ascends.             *)
(***************************************************************************)
SavedAts(versions) == {versions[i].savedAt : i \in 1..Len(versions)}

Elements(s) == {s[i] : i \in 1..Len(s)}

\* The imported snapshots in the entry's own field names.
ImportedSnapshots(b) ==
    {[description |-> v.value, author |-> v.creator, links |-> v.url,
      savedAt |-> v.savedAt] : v \in Elements(b.versions)}

IsVersionUnion(after, before, importedSet) ==
    /\ Elements(before) \subseteq Elements(after)
    /\ {v.savedAt : v \in importedSet} \subseteq SavedAts(after)
    /\ Elements(after) \subseteq Elements(before) \cup importedSet
    /\ Len(after) = Len(before)
          + Cardinality({v.savedAt : v \in importedSet} \ SavedAts(before))
    /\ \A i \in 1..(Len(after) - 1) : after[i].savedAt <= after[i + 1].savedAt

EntryMerges ==
    (IF MergedW3C /\ Len(Data.modelInfo) > 0
     THEN {[before |-> Pre.modelInfoEntries,
            bodies |-> Data.modelInfo,
            imported |-> modelInfoEntriesOf(Data.modelInfo, Pre.uuidCounter,
                                            clock),
            after |-> modelInfoEntries]}
     ELSE {})
    \cup
    (IF MergedW3C /\ Len(Data.items) = 1
           /\ AnnIndex(Pre.annotations, Data.items[1].uuid) # 0
     THEN LET a == AnnIndex(Pre.annotations, Data.items[1].uuid)
          IN {[before |-> Pre.annotations[a].entries,
               bodies |-> Data.items[1].body,
               imported |-> convertFromW3CAnnotation(Data.items[1], {}, 0,
                                W3CAfterGroups(Pre, Data, clock).uuidCounter,
                                clock).entries,
               after |-> annotations[a].entries]}
     ELSE {})

\* The local list after the first j imported entries.
EntriesAt(m, j) == mergeEntriesPrefix(m.before, m.imported, j).entries

UnmatchedBodies(m) ==
    {j \in 1..Len(m.bodies) : MatchIndex(EntriesAt(m, j - 1), m.bodies[j]) = 0}

MatchedStepwise(m) ==
    /\ \A j \in 1..Len(m.bodies) :
          LET was == EntriesAt(m, j - 1)
              now == EntriesAt(m, j)
              k == MatchIndex(was, m.bodies[j])
          IN IF k = 0
             THEN /\ Len(now) = Len(was) + 1
                  /\ SubSeq(now, 1, Len(was)) = was
                  /\ now[Len(now)].description = m.bodies[j].value
                  /\ now[Len(now)].author = m.bodies[j].creator
                  /\ now[Len(now)].timestamp = m.bodies[j].created
             ELSE /\ Len(now) = Len(was)
                  /\ now[k].uuid = was[k].uuid
                  /\ \A i \in 1..Len(was) : i # k => now[i] = was[i]
    /\ Len(m.after) = Len(m.before) + Cardinality(UnmatchedBodies(m))
    /\ Elements(m.after) = Elements(EntriesAt(m, Len(m.bodies)))

\* C7: every entry list merged by the last import went by UUID, then by
\* content, then by appending.
C7_EntriesMatched == \A m \in EntryMerges : MatchedStepwise(m)

\* Two imported entries without UUID met a non-empty local list: the first
\* matched nothing and was appended, the second matched a local entry by
\* content only.
C7_Witness ==
    \E m \in EntryMerges :
        /\ Len(m.before) > 0
        /\ Len(m.bodies) = 2
        /\ m.bodies[2].entryUuid = 0
        /\ UnmatchedBodies(m) = {1}
        /\ Len(m.after) = Len(m.before) + 1

(***************************************************************************)
(* C4: an imported annotation is merged into a local annotation only when  *)
(* both have the same UUID; one whose UUID matches no local annotation,    *)
(* even if its name equals a local name, is appended as a new annotation   *)
(* with a fresh numeric id, keeping its UUID or, if it carried none,       *)
(* getting a freshly generated one.                                        *)
(***************************************************************************)
\* The annotation list after the first k items of the last file.
AnnotationsAt(k) == W3CAfterItems(Pre, Data, clock, k).annotations

\* Every numeric id and every UUID in use in a document part.
IdsOf(gs, as) ==
    {gs[i].id : i \in 1..Len(gs)} \cup {as[i].id : i \in 1..Len(as)}

UuidsOf(gs, as) ==
    {gs[i].uuid : i \in 1..Len(gs)} \cup {as[i].uuid : i \in 1..Len(as)}
    \cup UNION {{as[i].entries[j].uuid : j \in 1..Len(as[i].entries)} :
                   i \in 1..Len(as)}

ItemMatchedByUuidOnly(k) ==
    LET item == Data.items[k]
        was == AnnotationsAt(k - 1)
        now == AnnotationsAt(k)
        a == IF item.uuid = 0 THEN 0 ELSE AnnIndex(was, item.uuid)
    IN IF a # 0
       THEN /\ Len(now) = Len(was)
            /\ now[a].uuid = item.uuid
            /\ now[a].id = was[a].id
            /\ \A i \in 1..Len(was) : i # a => now[i] = was[i]
       ELSE /\ Len(now) = Len(was) + 1
            /\ SubSeq(now, 1, Len(was)) = was
            /\ now[Len(now)].id \notin IdsOf(Pre.groups, was)
            /\ now[Len(now)].uuid # 0
            /\ IF item.uuid # 0
               THEN now[Len(now)].uuid = item.uuid
               ELSE now[Len(now)].uuid \notin UuidsOf(Pre.groups, was)

\* C4: every item of the last file was merged by UUID or appended as new;
\* the document holds the outcome, with its lines and polygons reprojected.
C4_MatchedByUuidOnly ==
    MergedW3C =>
        /\ \A k \in 1..Len(Data.items) : ItemMatchedByUuidOnly(k)
        /\ annotations = reprojectAllAnnotations(AnnotationsAt(Len(Data.items)))

\* An item with a UUID unknown locally, named like a local annotation, came
\* in as a new annotation under its own UUID; the namesake is untouched.
C4_Witness ==
    /\ MergedW3C
    /\ \E k \in 1..Len(Data.items) :
          /\ Data.items[k].uuid # 0
          /\ AnnIndex(Pre.annotations, Data.items[k].uuid) = 0
          /\ \E i \in 1..Len(Pre.annotations) :
                /\ Pre.annotations[i].name = Data.items[k].name
                /\ annotations[i] = Pre.annotations[i]
          /\ \E i \in (Len(Pre.annotations) + 1)..Len(annotations) :
                /\ annotations[i].uuid = Data.items[k].uuid
                /\ annotations[i].id \notin IdsOf(Pre.groups, Pre.annotations)

(***************************************************************************)
(* C6: for an imported annotation matched to a local one, the local name,  *)
(* group, points and face/box data are replaced by the imported ones only  *)
(* if the imported latest entry timestamp is strictly newer than the local *)
(* one (both as they stand before the entries are merged), and then all of *)
(* them are; the name-version and group-version histories are unioned      *)
(* either way.                                                             *)
(***************************************************************************)
LatestOf(entries) ==
    IF Len(entries) = 0 THEN 0
    ELSE CHOOSE t \in {EffectiveTime(entries[i]) : i \in 1..Len(entries)} :
            \A i \in 1..Len(entries) : EffectiveTime(entries[i]) <= t

\* The k-th item of the last file as the import holds it before looking for
\* its local counterpart.
ImportedAnnotation(k) ==
    importedAnnotationOf(W3CAfterItems(Pre, Data, clock, k - 1), Data.items[k],
                         NeedsTransform(Data), clock).ann

ItemIsMatched(k) ==
    /\ Data.items[k].uuid # 0
    /\ AnnIndex(AnnotationsAt(k - 1), Data.items[k].uuid) # 0

\* The local counterpart of the k-th item before and after its merge.
LocalBefore(k) ==
    AnnotationsAt(k - 1)[AnnIndex(AnnotationsAt(k - 1), Data.items[k].uuid)]

LocalAfter(k) ==
    AnnotationsAt(k)[AnnIndex(AnnotationsAt(k - 1), Data.items[k].uuid)]

MetadataNewer(k) ==
    LatestOf(ImportedAnnotation(k).entries) > LatestOf(LocalBefore(k).entries)

MetadataFollowsNewer(k) ==
    LET imp == ImportedAnnotation(k)
        was == LocalBefore(k)
        now == LocalAfter(k)
        from == IF MetadataNewer(k) THEN imp ELSE was
    IN /\ now.name = from.name
       /\ now.groupId = from.groupId
       /\ now.points = from.points
       /\ now.faceData = from.faceData
       /\ now.boxData = from.boxData
       /\ IsVersionUnion(now.nameVersions, was.nameVersions,
                         Elements(imp.nameVersions))
       /\ IsVersionUnion(now.groupVersions, was.groupVersions,
                         Elements(imp.groupVersions))

GroupsAt(k) == W3CAfterGroupsPrefix(Pre, Data, clock, k)

\* A group without a name is imported under the name 'Imported Group'.
ImportedGroupName(g) == IF g.name = "" THEN "Imported Group" ELSE g.name

\* Index of the local group an imported group stands for (0 if none).
GroupTarget(gs, g) ==
    LET byUuid == {i \in 1..Len(gs) : g.uuid # 0 /\ gs[i].uuid = g.uuid}
        byName == {i \in 1..Len(gs) : gs[i].name = ImportedGroupName(g)}
        pick(S) == CHOOSE i \in S : \A j \in S : i <= j
    IN IF byUuid # {} THEN pick(byUuid)
       ELSE IF byName # {} THEN pick(byName) ELSE 0

\* The local id the import maps the imported group to.
MappedId(k) ==
    MapGet(GroupsAt(k).groupIdMap, <<"id", Data.w3cGroups[k].id>>)

GroupMappedByUuidThenName(k) ==
    LET g == Data.w3cGroups[k]
        was == GroupsAt(k - 1).groups
        now == GroupsAt(k).groups
        t == GroupTarget(was, g)
    IN /\ g.uuid # 0 =>
             MapGet(GroupsAt(k).groupIdMap, <<"uuid", g.uuid>>) = MappedId(k)
       /\ IF t # 0
          THEN /\ now = was
               /\ MappedId(k) = was[t].id
          ELSE /\ Len(now) = Len(was) + 1
               /\ SubSeq(now, 1, Len(was)) = was
               /\ MappedId(k) = now[Len(now)].id
               /\ now[Len(now)].id \notin IdsOf(was, Pre.annotations)
               /\ now[Len(now)].name = ImportedGroupName(g)
               /\ now[Len(now)].uuid # 0
               /\ IF g.uuid # 0
                  THEN now[Len(now)].uuid = g.uuid
                  ELSE now[Len(now)].uuid \notin UuidsOf(was, Pre.annotations)

\* C8: every group of the last file was mapped by UUID, then by name, or
\* created.
C8_GroupsMapped ==
    MergedW3C /\ Len(Pre.groups) > 0 =>
        /\ \A k \in 1..Len(Data.w3cGroups) : GroupMappedByUuidThenName(k)
        /\ groups = GroupsAt(Len(Data.w3cGroups)).groups

\* An imported group carried the UUID of one local group and the name of
\* another and was mapped to the first; no group was created for it.
C8_Witness ==
    /\ MergedW3C
    /\ \E k \in 1..Len(Data.w3cGroups) :
          LET g == Data.w3cGroups[k]
              was == GroupsAt(k - 1).groups
          IN /\ \E i, j \in 1..Len(was) :
                   /\ i # j
                   /\ was[i].uuid = g.uuid /\ was[i].name # g.name
                   /\ was[j].name = g.name
                   /\ MappedId(k) = was[i].id
             /\ GroupsAt(k).groups = was
    /\ Len(groups) > Len(Pre.groups)

(***************************************************************************)
(* C9: a parsed file that is neither a W3C AnnotationCollection nor of the *)
(* legacy groups+annotations shape is rejected and no group, annotation,   *)
(* entry or model-info field of the local document is changed.  As         *)
(* claimed, the report is always 'invalid format'; as the program has it,  *)
(* the report is 'invalid format' unless the file is the JSON value null,  *)
(* which is reported as 'Error importing file'.                            *)
(***************************************************************************)
UnknownShape ==
    /\ importsDone > 0
    /\ ~(Data.context /\ Data.type = "AnnotationCollection")
    /\ ~(Data.hasGroups /\ Data.hasAnnotations)

DocumentUntouched ==
    /\ groups = Pre.groups
    /\ annotations = Pre.annotations
    /\ modelInfoEntries = Pre.modelInfoEntries

\* C9 as stated: every file of unknown shape is reported as an invalid
\* format and leaves the document untouched.
C9_AlwaysInvalidFormat ==
    UnknownShape => status.kind = "invalid" /\ DocumentUntouched

\* C9 as the program has it: every file of unknown shape leaves the
\* document untouched; null is reported as an error, the others as an
\* invalid format.
C9_RejectedUntouched ==
    UnknownShape =>
        /\ DocumentUntouched
        /\ status.kind = IF Data.isNull THEN "error" ELSE "invalid"

\* A file with items to offer but without '@context' met a document that
\* already held annotations, and was turned away.
C9_Witness ==
    /\ UnknownShape
    /\ Len(Data.items) > 0
    /\ Len(Pre.annotations) > 0
    /\ AnnIndex(Pre.annotations, Data.items[1].uuid) = 0
    /\ status.kind = "invalid"
    /\ DocumentUntouched

(***************************************************************************)
(* C10: if one item of an otherwise valid W3C document is malformed so     *)
(* that converting it fails, only that item is skipped: every other item,  *)
(* before and after it, is imported and the import runs to completion.     *)
(***************************************************************************)
C10_OnlyMalformedItemSkipped ==
    /\ importsDone > 0
    /\ ~Data.isNull
    /\ Data.context /\ Data.type = "AnnotationCollection"
    /\ \E k \in 1..Len(Data.items) : Data.items[k].malformed
    => /\ status.kind = "import"
       /\ \A k \in 1..Len(Data.items) :
             ~Data.items[k].malformed =>
                 AnnIndex(annotations, Data.items[k].uuid) # 0

(***************************************************************************)
(* C5: importing a W3C document that is an exact copy (an export) of the   *)
(* current document reports zero added and zero merged annotations,        *)
(* changes no annotation or entry content, and leaves the length of every  *)
(* entry, name and group version history unchanged.                        *)
(***************************************************************************)
CopyImported == importsDone > 0 /\ Data = exportAnnotations(Pre, clock)

\* Same entries, up to their order in the list.
SameEntries(now, was) ==
    Len(now) = Len(was) /\ Elements(now) = Elements(was)

\* C5: reading back an export adds nothing, merges nothing and changes no
\* content or history length.
C5_CopyChangesNothing ==
    CopyImported =>
        /\ status.kind = "import"
        /\ status.added = 0
        /\ status.merged = 0
        /\ Len(annotations) = Len(Pre.annotations)
        /\ \A i \in 1..Len(Pre.annotations) :
              LET now == annotations[i]
                  was == Pre.annotations[i]
              IN /\ now.uuid = was.uuid
                 /\ now.name = was.name
                 /\ now.groupId = was.groupId
                 /\ now.points = was.points
                 /\ now.faceData = was.faceData
                 /\ now.boxData = was.boxData
                 /\ SameEntries(now.entries, was.entries)
                 /\ Len(now.nameVersions) = Len(was.nameVersions)
                 /\ Len(now.groupVersions) = Len(was.groupVersions)
        /\ SameEntries(modelInfoEntries, Pre.modelInfoEntries)

(***************************************************************************)
(* C11: exporting the current document and importing the file into an      *)
(* empty document yields, for every exported annotation, exactly one       *)
(* annotation with the same UUID, type, points, face and box data and the  *)
(* same entries (UUID, description, author, timestamps, links); only the   *)
(* numeric ids may differ.                                                 *)
(***************************************************************************)
RoundTripDone ==
    /\ exportedFrom # NoDoc
    /\ Len(Pre.annotations) = 0
    /\ Data = exportAnnotations(exportedFrom, clock)

\* What the claim compares of an entry: everything but its numeric id.
EntryContent(e) ==
    [uuid |-> e.uuid, description |-> e.description, author |-> e.author,
     timestamp |-> e.timestamp, modified |-> e.modified, links |-> e.links]

EntryContents(entries) == [i \in 1..Len(entries) |-> EntryContent(entries[i])]

SameAnnotationContent(now, was) ==
    /\ now.uuid = was.uuid
    /\ now.type = was.type
    /\ now.points = was.points
    /\ now.faceData = was.faceData
    /\ now.boxData = was.boxData
    /\ EntryContents(now.entries) = EntryContents(was.entries)

\* C11: after a round trip into an empty document every exported annotation
\* has exactly one counterpart, equal in everything but numeric ids.
C11_RoundTripRebuilds ==
    RoundTripDone =>
        \A i \in 1..Len(exportedFrom.annotations) :
            /\ Cardinality({j \in 1..Len(annotations) :
                   annotations[j].uuid = exportedFrom.annotations[i].uuid}) = 1
            /\ \E j \in 1..Len(annotations) :
                   SameAnnotationContent(annotations[j], exportedFrom.annotations[i])

(***************************************************************************)
(* C12: when the imported W3C document declares up-axis Z, every point of  *)
(* every imported annotation and every box centre is converted from        *)
(* (x, y, z) to (x, z, -y), the exact inverse of the export conversion,    *)
(* before the annotation is matched or stored; when it declares Y or no    *)
(* up-axis, the coordinates are stored unchanged.                          *)
(***************************************************************************)
\* A point of the file, as the document has to hold it.
FromFile(p, upAxis) == IF upAxis = "Z" THEN <<p[1], p[3], 0 - p[2]>> ELSE p

FilePoints(k) ==
    [i \in 1..Len(Data.items[k].selector.pts) |->
        FromFile(Data.items[k].selector.pts[i], Data.upAxis)]

\* The annotation that holds the k-th item once it is stored, if its
\* geometry is taken: a new annotation, or a local one it is newer than.
GeometryTaken(k) == ItemIsMatched(k) => MetadataNewer(k)

StoredFor(k) ==
    IF ItemIsMatched(k) THEN LocalAfter(k)
    ELSE AnnotationsAt(k)[Len(AnnotationsAt(k))]

CoordinatesConverted(k) ==
    /\ StoredFor(k).points = FilePoints(k)
    /\ ImportedAnnotation(k).points = FilePoints(k)
    /\ Data.items[k].selector.kind = "box" =>
          /\ StoredFor(k).boxData.present
          /\ StoredFor(k).boxData.center
                = FromFile(Data.items[k].selector.pts[1], Data.upAxis)
    /\ \A i \in 1..Len(StoredFor(k).points) :
          pointFromZUp(pointToZUp(StoredFor(k).points[i])) = StoredFor(k).points[i]

\* C12: the points and box centre stored for an item are the file's,
\* converted exactly when the file declares up-axis Z.
C12_CoordinatesConverted ==
    MergedW3C =>
        \A k \in 1..Len(Data.items) : GeometryTaken(k) => CoordinatesConverted(k)

\* A Z-up file stored a box whose centre moved, and a file without up-axis
\* or with up-axis Y is on record with its coordinates as written.
C12_Witness ==
    /\ MergedW3C
    /\ \E k \in 1..Len(Data.items) :
          /\ GeometryTaken(k)
          /\ \/ /\ Data.upAxis = "Z"
                /\ Data.items[k].selector.kind = "box"
                /\ StoredFor(k).boxData.center # Data.items[k].selector.pts[1]
                /\ annotations[AnnIndex(annotations, Data.items[k].uuid)].boxData.center
                      = FromFile(Data.items[k].selector.pts[1], "Z")
             \/ /\ Data.upAxis # "Z"
                /\ StoredFor(k).points = Data.items[k].selector.pts
                /\ annotations[AnnIndex(annotations, Data.items[k].uuid)].points
                      = Data.items[k].selector.pts

(***************************************************************************)
(* C13: during a paint stroke, pointer moves only record the latest        *)
(* position and modifier state; each frame performs at most one paint      *)
(* update and one highlight-buffer update, using the most recent position, *)
(* and performs none if no position arrived since the previous frame.      *)
(***************************************************************************)
\* The editor apart from the recorded position and the counts.
ApartFromPosition(ed) ==
    [ed EXCEPT !.pendingPaintPos = 0, !.pendingPaintShift = FALSE,
               !.hasPendingPaint = FALSE, !.log = NoLog]

MoveOnlyRecords ==
    lastOp.op = "mousemove" /\ lastOp.pre.isPaintingSurface =>
        /\ ApartFromPosition(editing) = ApartFromPosition(lastOp.pre)
        /\ editing.hasPendingPaint
        /\ editing.pendingPaintPos = pointer.pos

FrameDuringStroke == lastOp.op = "frame" /\ lastOp.pre.isPaintingSurface

\* C13: a move during a stroke changes the recorded position only, and a
\* frame during a stroke paints at most once, at the recorded position,
\* writes the highlight buffer at most once, and does neither if no
\* position was recorded.
C13_OneUpdatePerFrame ==
    /\ MoveOnlyRecords
    /\ FrameDuringStroke =>
          /\ editing.log.paints <= 1
          /\ editing.log.updates <= 1
          /\ editing.log.paints = 1 =>
                editing.log.positions = <<lastOp.pre.pendingPaintPos>>
          /\ ~lastOp.pre.hasPendingPaint =>
                editing.log.paints = 0 /\ editing.log.updates = 0

(***************************************************************************)
(* C14: the paint loop is eventually stopped after a stroke ends by        *)
(* pointer release or cancellation, including when the pointer leaves the  *)
(* canvas or a pointer-cancel event is delivered.                          *)
(***************************************************************************)
\* The button is up: whatever stroke there was has ended.
StrokeEnded == ~pointer.down

PaintLoopStopped == ~editing.paintLoopRAF /\ ~editing.isPaintingSurface

\* C14: once the button is up, the paint loop comes to a stop.
C14_LoopStopsAfterStroke == StrokeEnded ~> PaintLoopStopped

(***************************************************************************)
(* C15: what a cancelled surface session leaves behind.                    *)
(***************************************************************************)
CancelledNow == lastOp.op \in {"escape", "cancel"}

SurfaceReleased(ed) ==
    /\ ~ed.surfaceHighlightMesh
    /\ ed.highlightBuffer = <<>>
    /\ ed.highlightVertexCount = 0
    /\ ed.paintedFaces = <<>>
    /\ ed.pendingFaces = <<>>
    /\ ~ed.needsFullHighlightRebuild

NothingScheduled(ed) ==
    /\ ed.frameCallbacks = <<>>
    /\ ~ed.paintLoopRAF
    /\ ~ed.surfaceHighlightRAF
    /\ ~ed.isPaintingSurface

Drawing(ed) == ed.tempPoints # <<>> \/ ed.paintedFaces # <<>>

ToolSwitched ==
    lastOp.op = "setTool" /\ editing.currentTool # lastOp.pre.currentTool

DrawingDiscarded ==
    /\ editing.tempPoints = <<>>
    /\ editing.tempProjectedEdges = <<>>
    /\ editing.paintedFaces = <<>>
    /\ annotations = lastOp.annotations

EscapeDiscards ==
    lastOp.op = "escape" /\ Drawing(lastOp.pre) => DrawingDiscarded

\* C16: Escape, or a switch to another tool, while points or painted faces
\* have accrued discards the points, the cached edges and the painted
\* faces and adds nothing to the document.
C16_EscapeOrSwitchCancels ==
    (lastOp.op = "escape" \/ ToolSwitched) /\ Drawing(lastOp.pre) =>
        DrawingDiscarded

(***************************************************************************)
(* C17: committing a drawing, then saving or cancelling the popup.         *)
(***************************************************************************)
\* The double click took the committing branch: the tool was put down.
Committed ==
    /\ lastOp.op = "dblclick"
    /\ lastOp.pre.currentTool # "none"
    /\ editing.currentTool = "none"

TempDrawingCleared ==
    /\ editing.tempPoints = <<>>
    /\ editing.tempProjectedEdges = <<>>
    /\ SurfaceReleased(editing)
    /\ NothingScheduled(editing)
    /\ ~editing.popup.visible

GrownByOne ==
    /\ Len(annotations) = Len(lastOp.annotations) + 1
    /\ SubSeq(annotations, 1, Len(lastOp.annotations)) = lastOp.annotations
    /\ annotations[Len(annotations)].type = lastOp.pre.popup.type
    /\ annotations[Len(annotations)].points = lastOp.pre.popup.points
    /\ annotations[Len(annotations)].faceData = lastOp.pre.popup.faceData

\* C17: a commit opens the popup for what was drawn and leaves the
\* annotation list as it was; saving the popup appends exactly one
\* annotation, of the popup's type and geometry, cancelling it leaves the
\* list as it was, and both clear the temporary drawing state.
C17_CommitThenSaveOrCancel ==
    /\ Committed =>
          /\ editing.popup.visible
          /\ editing.popup.type = lastOp.pre.currentTool
          /\ annotations = lastOp.annotations
    /\ lastOp.op = "save" => GrownByOne /\ TempDrawingCleared
    /\ lastOp.op = "cancel" =>
          annotations = lastOp.annotations /\ TempDrawingCleared

\* A committed polygon of three points has been saved.
C17_Witness ==
    /\ lastOp.op = "save"
    /\ lastOp.pre.popup.type = "polygon"
    /\ Len(lastOp.pre.popup.points) = 3
    /\ Len(annotations) = 1

\* A committed surface has been cancelled in the popup.
SurfaceCommitCancelled ==
    /\ lastOp.op = "cancel"
    /\ lastOp.pre.popup.type = "surface"
    /\ lastOp.pre.popup.faceData # <<>>

(***************************************************************************)
(* C18: a double click on a drawing that is too small to commit.           *)
(***************************************************************************)
\* What the dblclick listener finds: the release and the second click of the
\* double click have been handled.
AtDblClick == onCanvasClick(onCanvasMouseUp(lastOp.pre), pointer.pos, FALSE)

Insufficient(ed) ==
    \/ ed.currentTool = "surface" /\ Len(ed.paintedFaces) = 0
    \/ ed.currentTool = "line" /\ Len(ed.tempPoints) < 2
    \/ ed.currentTool = "polygon" /\ Len(ed.tempPoints) < 3

\* C18: a double click that finds no painted face, a line of fewer than two
\* points or a polygon of fewer than three opens no popup, commits nothing
\* and leaves the annotation list as it was.
C18_TooSmallIsNoCommit ==
    lastOp.op = "dblclick" /\ Insufficient(AtDblClick) =>
        /\ editing.popup = lastOp.pre.popup
        /\ editing = AtDblClick
        /\ annotations = lastOp.annotations
        /\ Len(groups) = 1
        /\ modelInfoEntries = <<>>

\* A polygon of two points has been double-clicked.
C18_Witness ==
    /\ lastOp.op = "dblclick"
    /\ editing.currentTool = "polygon"
    /\ Len(editing.tempPoints) = 2
    /\ ~editing.popup.visible

(***************************************************************************)
(* C19: the highlight buffer against a rebuild from scratch.               *)
(***************************************************************************)
\* Every paint and erase so far has been taken up by a highlight update.
HighlightUpToDate ==
    /\ editing.pendingFaces = <<>>
    /\ ~editing.needsFullHighlightRebuild

\* The triangles the draw range shows.
ValidTriangles(ed) == SubSeq(ed.highlightBuffer, 1, ed.highlightVertexCount \div 3)

\* rebuildHighlightFull on a new mesh, for the painted set of the editor.
FromScratch(ed) ==
    rebuildHighlightFull(ensureHighlightMesh(
        [ed EXCEPT !.surfaceHighlightMesh = FALSE]))

OneTrianglePerFace(ed) ==
    /\ \A f \in 1..2 :
          Cardinality({i \in 1..Len(ValidTriangles(ed)) : ValidTriangles(ed)[i] = f})
             = IF SetHas(ed.paintedFaces, f) THEN 1 ELSE 0

\* C19: once the highlight update has run, the valid vertex count is three
\* times the size of the painted set, the draw range shows one triangle for
\* each painted face and no other, and count and content are those of a
\* full rebuild from scratch, whether the buffer was appended to or rebuilt.
C19_BufferMatchesPaintedSet ==
    HighlightUpToDate =>
        /\ editing.highlightVertexCount = 3 * Len(editing.paintedFaces)
        /\ OneTrianglePerFace(editing)
        /\ editing.highlightVertexCount = FromScratch(editing).highlightVertexCount
        /\ ValidTriangles(editing) = ValidTriangles(FromScratch(editing))
        /\ editing.paintedFaces # <<>> =>
              editing.drawRange = editing.highlightVertexCount

\* A frame has rebuilt a buffer that held more faces than are painted now,
\* and an earlier state of the same buffer came from an append.
C19_Witness ==
    /\ lastOp.op = "frame"
    /\ lastOp.pre.needsFullHighlightRebuild
    /\ lastOp.pre.highlightVertexCount > 3 * Len(editing.paintedFaces)
    /\ editing.paintedFaces # <<>>
    /\ HighlightUpToDate

(***************************************************************************)
(* C20: painting what is painted and erasing what is not.                  *)
(***************************************************************************)
AllPainted(ed, brush) ==
    \A i \in 1..Len(brush) : SetHas(ed.paintedFaces, brush[i])

NonePainted(ed, brush) ==
    \A i \in 1..Len(brush) : ~SetHas(ed.paintedFaces, brush[i])

\* A click of the surface tool on the model has called paintAtPoint.
ClickPainted ==
    /\ lastOp.op = "click"
    /\ lastOp.pre.currentTool = "surface"
    /\ pointer.pos # 0

PaintedIn(ed, pos, erasing) == paintAtPoint([ed EXCEPT !.isErasingMode = erasing], pos)

\* C20: a brush that covers only painted faces leaves the painted set and
\* the pending queue as they were, and an erasing brush that covers no
\* painted face leaves the painted set as it was and asks for no rebuild:
\* for the click that has just painted, and for a call of paintAtPoint at
\* any position in the state reached.
C20_RepaintAndEraseNothing ==
    /\ ClickPainted /\ ~editing.isErasingMode
          /\ AllPainted(lastOp.pre, BrushAt(pointer.pos)) =>
          /\ editing.paintedFaces = lastOp.pre.paintedFaces
          /\ editing.pendingFaces = lastOp.pre.pendingFaces
    /\ ClickPainted /\ editing.isErasingMode
          /\ NonePainted(lastOp.pre, BrushAt(pointer.pos)) =>
          /\ editing.paintedFaces = lastOp.pre.paintedFaces
          /\ editing.needsFullHighlightRebuild
                = lastOp.pre.needsFullHighlightRebuild
    /\ \A pos \in Positions :
          /\ AllPainted(editing, BrushAt(pos)) =>
                /\ PaintedIn(editing, pos, FALSE).paintedFaces = editing.paintedFaces
                /\ PaintedIn(editing, pos, FALSE).pendingFaces = editing.pendingFaces
          /\ NonePainted(editing, BrushAt(pos)) =>
                /\ PaintedIn(editing, pos, TRUE).paintedFaces = editing.paintedFaces
                /\ PaintedIn(editing, pos, TRUE).needsFullHighlightRebuild
                      = editing.needsFullHighlightRebuild

\* A click with the two-face brush on two painted faces.
C20_Witness ==
    /\ ClickPainted
    /\ ~editing.isErasingMode
    /\ Len(BrushAt(pointer.pos)) = 2
    /\ AllPainted(lastOp.pre, BrushAt(pointer.pos))

\* An erasing click with the one-face brush while only the other face is
\* painted.
ErasedNothing ==
    /\ ClickPainted
    /\ editing.isErasingMode
    /\ editing.paintedFaces # <<>>
    /\ NonePainted(lastOp.pre, BrushAt(pointer.pos))

(***************************************************************************)
(* C21: what finishing a painted surface hands to the popup.               *)
(***************************************************************************)
ScenePairs == UNION {{Scene(pos)[i] : i \in 1..Len(Scene(pos))} : pos \in FacePositions}

PairString(pair) == ToString(pair[1]) \o "_" \o ToString(pair[2])

Elems(seq) == {seq[i] : i \in 1..Len(seq)}

\* The triangles of the scene that are painted in an editor state.
PaintedPairs(ed) ==
    {pair \in ScenePairs : \E pos \in FacePositions : \E i \in 1..Len(Scene(pos)) :
        Scene(pos)[i] = pair /\ SetHas(ed.paintedFaces, BrushAt(pos)[i])}

SurfaceFinished ==
    /\ lastOp.op = "dblclick"
    /\ lastOp.pre.currentTool = "surface"
    /\ AtDblClick.paintedFaces # <<>>

\* C21: finishing a surface with painted faces opens the popup with one
\* "mesh_triangle" string for each painted triangle, none missing and none
\* twice, and leaves the painted set and the pending queue empty, the
\* highlight mesh and buffer released and the paint loop stopped.
C21_FinishHandsFaceData ==
    SurfaceFinished =>
        /\ editing.popup.visible
        /\ editing.popup.type = "surface"
        /\ Len(editing.popup.faceData) = Len(AtDblClick.paintedFaces)
        /\ Elems(editing.popup.faceData)
              = {PairString(pair) : pair \in PaintedPairs(AtDblClick)}
        /\ Cardinality(Elems(editing.popup.faceData)) = Len(editing.popup.faceData)
        /\ SurfaceReleased(editing)
        /\ ~editing.paintLoopRAF
        /\ ~editing.isPaintingSurface
        /\ ~\E i \in 1..Len(editing.frameCallbacks) :
              editing.frameCallbacks[i] = "paintLoop"

\* Triangle 1 of both meshes was painted and the surface finished.
C21_Witness ==
    /\ SurfaceFinished
    /\ {<<0, 1>>, <<1, 1>>} \subseteq PaintedPairs(AtDblClick)
    /\ lastOp.pre.surfaceHighlightMesh

(***************************************************************************)
(* C22: face ids and the indices read back from them.                      *)
(***************************************************************************)
Decoded(faceId) == <<meshIdxOf(faceId), faceIdxOf(faceId)>>

\* C22: every face id a click has put into the painted set decodes to the
\* mesh and triangle it was made from, and the painted set holds one id for
\* each painted triangle: no two triangles share an id.
C22_FaceIdDecodes ==
    /\ \A pos \in FacePositions : \A i \in 1..Len(Scene(pos)) :
          Decoded(BrushAt(pos)[i]) = Scene(pos)[i]
    /\ ClickPainted =>
          /\ \A i \in 1..Len(Scene(pointer.pos)) :
                \E k \in 1..Len(editing.paintedFaces) :
                   Decoded(editing.paintedFaces[k]) = Scene(pointer.pos)[i]
          /\ Elems(editing.paintedFaces)
                = Elems(lastOp.pre.paintedFaces) \cup Elems(BrushAt(pointer.pos))
          /\ Cardinality({Decoded(id) : id \in Elems(editing.paintedFaces)})
                = Cardinality(PaintedPairs(lastOp.pre)
                              \cup Elems(Scene(pointer.pos)))

\* The last triangle of mesh 0 and the first of mesh 1, whose ids are
\* neighbours, are painted next to triangle 1 of both meshes.
C22_Witness ==
    /\ ClickPainted
    /\ pointer.pos = 4
    /\ Len(editing.paintedFaces) = 4

(***************************************************************************)
(* C30: when a highlight update rebuilds and when it appends.              *)
(***************************************************************************)
\* The erasing click took a painted face out of the set.
RemovedByClick ==
    /\ editing.isErasingMode
    /\ ~NonePainted(lastOp.pre, BrushAt(pointer.pos))

\* updateSurfaceHighlight called in an editor state.
UpdatedFrom(ed) == updateSurfaceHighlight(Cleared(ed))

\* The triangles and the count an append starts from: those of the mesh, or
\* none when the update has to make the mesh.
WrittenBefore(ed) == IF ed.surfaceHighlightMesh THEN ed.highlightBuffer ELSE <<>>

CountBefore(ed) == IF ed.surfaceHighlightMesh THEN ed.highlightVertexCount ELSE 0

AppendedOnly(ed, u) ==
    /\ u.highlightVertexCount = CountBefore(ed) + 3 * Len(ed.pendingFaces)
    /\ SubSeq(u.highlightBuffer, 1, CountBefore(ed) \div 3)
          = SubSeq(WrittenBefore(ed), 1, CountBefore(ed) \div 3)
    /\ SubSeq(u.highlightBuffer, CountBefore(ed) \div 3 + 1, u.highlightVertexCount \div 3)
          = ed.pendingFaces
    /\ u.log.updates = IF ed.pendingFaces = <<>> THEN 0 ELSE 1

\* C30: the rebuild flag is raised exactly by an erase that removes a face
\* and lowered by the next update; an update rebuilds the whole buffer from
\* the painted set exactly when the flag is up and the set is not empty,
\* and otherwise only appends the faces painted since the update before,
\* leaving what was written untouched.
C30_RebuildOnlyAfterErase ==
    /\ ClickPainted =>
          editing.needsFullHighlightRebuild
             = (lastOp.pre.needsFullHighlightRebuild \/ RemovedByClick)
    /\ UpdatedFrom(editing).log.rebuilds
          = IF editing.needsFullHighlightRebuild /\ editing.paintedFaces # <<>>
            THEN 1 ELSE 0
    /\ ~UpdatedFrom(editing).needsFullHighlightRebuild
    /\ UpdatedFrom(editing).pendingFaces = <<>>
    /\ editing.needsFullHighlightRebuild /\ editing.paintedFaces # <<>> =>
          ValidTriangles(UpdatedFrom(editing)) = editing.paintedFaces
    /\ ~editing.needsFullHighlightRebuild /\ editing.paintedFaces # <<>> =>
          AppendedOnly(editing, UpdatedFrom(editing))
    /\ lastOp.op = "frame" /\ editing.log.rebuilds > 0 =>
          \/ lastOp.pre.needsFullHighlightRebuild
          \/ ~Elems(lastOp.pre.paintedFaces) \subseteq Elems(editing.paintedFaces)

\* A frame has appended to a buffer that an earlier frame had rebuilt after
\* an erase.
C30_Witness ==
    /\ lastOp.op = "frame"
    /\ editing.log.rebuilds = 0
    /\ editing.log.updates = 1
    /\ lastOp.pre.highlightVertexCount > 0
    /\ Len(lastOp.pre.highlightBuffer) > lastOp.pre.highlightVertexCount \div 3

\* A frame has rebuilt the buffer after an erasing click.
RebuiltAfterErase ==
    /\ lastOp.op = "frame"
    /\ editing.log.rebuilds = 1
    /\ lastOp.pre.needsFullHighlightRebuild
    /\ lastOp.pre.highlightVertexCount > 0

(***************************************************************************)
(* C27.  Deleting a group never deletes an annotation: the annotation      *)
(* count is unchanged, every annotation that belonged to the deleted group *)
(* now belongs to a group that still exists, and a request to delete the   *)
(* only remaining group is refused without changing anything.              *)
(***************************************************************************)
GroupIds(gs) == {gs[i].id : i \in 1..Len(gs)}

\* Annotation now is annotation was, but for its group.
SameButGroup(now, was) == now = [was EXCEPT !.groupId = now.groupId]

DeleteGroupPost(g) ==
    /\ Len(annotations') = Len(annotations)
    /\ modelInfoEntries' = modelInfoEntries
    /\ IF Len(groups) = 1
       THEN groups' = groups /\ annotations' = annotations
       ELSE /\ GroupIds(groups') = GroupIds(groups) \ {groups[g].id}
            /\ \A k \in 1..Len(annotations) :
                  /\ SameButGroup(annotations'[k], annotations[k])
                  /\ IF annotations[k].groupId = groups[g].id
                     THEN annotations'[k].groupId \in GroupIds(groups')
                     ELSE annotations'[k].groupId = annotations[k].groupId

\* C27: a step that deletes a group keeps every annotation, leaves those of
\* the deleted group in a group that still exists, and changes nothing of
\* the document when the group is the last one.
C27_DeleteGroupKeepsAnnotations ==
    [][\A g \in 1..Len(groups) : DeleteGroup(g) => DeleteGroupPost(g)]_vars

\* A group was deleted and an annotation that was in it is now in the group
\* that is left.
C27_Witness ==
    /\ lastOp.op = "deleteGroup"
    /\ Len(groups) = 1
    /\ Len(annotations) = Len(lastOp.annotations)
    /\ \E k \in 1..Len(annotations) :
          /\ lastOp.annotations[k].groupId \notin GroupIds(groups)
          /\ annotations[k].groupId \in GroupIds(groups)

\* Deleting the only group was refused.
DeleteRefused ==
    /\ lastOp.op = "deleteGroup"
    /\ status.kind = "Cannot delete the last group"
    /\ Len(groups) = 1

(***************************************************************************)
(* C23.  A version snapshot holding the previous value is appended to the  *)
(* corresponding version list exactly when an operation actually changes   *)
(* an annotation's name, an annotation's group id, or an entry's           *)
(* description, author or links; when the new value equals the old one no  *)
(* snapshot is appended.                                                   *)
(***************************************************************************)
\* List now is list was with one snapshot more, which holds the fields of
\* record old that the snapshots of the list have, apart from savedAt.
OneSnapshotMore(now, was, old) ==
    /\ Len(now) = Len(was) + 1
    /\ SubSeq(now, 1, Len(was)) = was
    /\ \A f \in DOMAIN now[Len(now)] \ {"savedAt", "value"} :
          now[Len(now)][f] = old[f]
    /\ "value" \in DOMAIN now[Len(now)] => now[Len(now)].value = old.name

NameLogged(now, was) ==
    IF now.name # was.name
    THEN OneSnapshotMore(now.nameVersions, was.nameVersions, was)
    ELSE now.nameVersions = was.nameVersions

GroupLogged(now, was) ==
    IF now.groupId # was.groupId
    THEN OneSnapshotMore(now.groupVersions, was.groupVersions, was)
    ELSE now.groupVersions = was.groupVersions

EntryLogged(now, was) ==
    IF \/ now.description # was.description
       \/ now.author # was.author
       \/ now.links # was.links
    THEN OneSnapshotMore(now.versions, was.versions, was)
    ELSE now.versions = was.versions

ChangesLogged(now, was) ==
    /\ NameLogged(now, was)
    /\ GroupLogged(now, was)
    /\ Len(now.entries) >= Len(was.entries)
    /\ \A e \in 1..Len(was.entries) : EntryLogged(now.entries[e], was.entries[e])

\* A step of a local operation: no file is read in it.
LocalStep == importsDone' = importsDone

\* C23: every local operation leaves, for each annotation name, group id
\* and entry content it has changed, exactly one new snapshot of the
\* previous value, and no new snapshot for what it has not changed.
C23_ChangesAreLogged ==
    [][LocalStep =>
          /\ Len(annotations') = Len(annotations)
          /\ \A k \in 1..Len(annotations) :
                ChangesLogged(annotations'[k], annotations[k])]_vars

\* The links of every entry are as they were.
LinksKept(now, was) ==
    \A e \in 1..Len(was.entries) : now.entries[e].links = was.entries[e].links

\* The part of C23 that holds: the Save buttons of the annotation popup and
\* of the entry form log what they change.
SavesAreLogged ==
    [][LocalStep /\ groups' = groups =>
          \A k \in 1..Len(annotations) :
              LinksKept(annotations'[k], annotations[k]) =>
                  ChangesLogged(annotations'[k], annotations[k])]_vars

\* A name, a group and an entry were changed by a Save and each left its
\* snapshot.
SaveLogged ==
    /\ lastOp.op \in {"saveAnnotation", "saveEntryEdit"}
    /\ Len(annotations) = Len(lastOp.annotations)
    /\ \E k \in 1..Len(annotations) :
          \/ /\ annotations[k].name # lastOp.annotations[k].name
             /\ annotations[k].groupId # lastOp.annotations[k].groupId
             /\ ChangesLogged(annotations[k], lastOp.annotations[k])
          \/ /\ annotations[k].entries[1].description
                   # lastOp.annotations[k].entries[1].description
             /\ ChangesLogged(annotations[k], lastOp.annotations[k])

(***************************************************************************)
(* C24.  After any sequence of local edits and imports, every entry,       *)
(* annotation-name and annotation-group version list is in strictly        *)
(* increasing savedAt order and records only earlier states of that        *)
(* entity, the current state being held in the live fields.                *)
(***************************************************************************)
StrictlyIncreasing(versions) ==
    \A i \in 1..(Len(versions) - 1) : versions[i].savedAt < versions[i + 1].savedAt

\* No snapshot of the entry was taken after the entry got its live content.
RecordsEarlierStates(entry) ==
    \A i \in 1..Len(entry.versions) :
        entry.versions[i].savedAt <= EffectiveTime(entry)

MergedBeforeLocal ==
    \E k \in 1..Len(annotations) :
        /\ status.kind = "import"
        /\ Len(lastImport.pre.annotations) >= k
        /\ Len(lastImport.pre.annotations[k].entries[1].versions) = 1
        /\ Len(annotations[k].entries[1].versions) = 2
        /\ annotations[k].entries[1].versions[2]
              = lastImport.pre.annotations[k].entries[1].versions[1]

(***************************************************************************)
(* C28: the UUID of an annotation is permanent                             *)
(***************************************************************************)

\* The annotation at position k is still there and has the UUID it had.
UuidKept(k) ==
    /\ Len(annotations') >= k
    /\ annotations'[k].uuid = annotations[k].uuid
    /\ annotations'[k].id = annotations[k].id

\* C28: no step of the application (saving the annotation popup, starting,
\* moving and releasing a point drag, deleting a group, importing a file that
\* matches the annotation or not) changes the UUID an annotation has.
C28_UuidNeverChanges ==
    [][\A k \in 1..Len(annotations) : UuidKept(k)]_vars

\* An annotation that came with a file (UUID 1 or 2) has been through
\* MaxEdits local edits, a rename among them, and a second import since.
C28_Witness ==
    /\ importsDone = MaxImports
    /\ clock = MaxTime + MaxEdits
    /\ Len(annotations) > 0
    /\ annotations[1].uuid \in {1, 2}
    /\ \E v \in 1..Len(annotations[1].nameVersions) :
          annotations[1].nameVersions[v].savedAt > MaxTime
    /\ status.kind = "import"

(***************************************************************************)
(* C25: the projected edges follow the points                              *)
(***************************************************************************)

\* The number of edges the points of the annotation call for.
EdgeCount(ann) ==
    IF ann.type = "polygon" THEN Len(ann.points) ELSE Len(ann.points) - 1

\* Edge i runs from point i to point i + 1, the last edge of a polygon back
\* to the first point.
EdgesFollowPoints(ann) ==
    /\ Len(ann.projectedEdges) = EdgeCount(ann)
    /\ \A i \in 1..Len(ann.projectedEdges) :
          /\ i <= Len(ann.points)
          /\ ann.projectedEdges[i].from = ann.points[i]
          /\ ann.projectedEdges[i].to = ann.points[(i % Len(ann.points)) + 1]

\* C25: in every reachable state, every line or polygon that has projected
\* edges has one edge per pair of consecutive points (and the closing edge
\* of a polygon), edge i running from point i to point i + 1.
C25_EdgesFollowPoints ==
    \A k \in 1..Len(annotations) :
        (IsLineOrPolygon(annotations[k]) /\ Has(annotations[k], "projectedEdges"))
            => EdgesFollowPoints(annotations[k])

\* An import has replaced the points of a projected line by fewer points and
\* has left the edges of the old points.
StaleEdgesAfterImport ==
    /\ importsDone = MaxImports
    /\ clock = MaxTime
    /\ \E k \in 1..Len(annotations) :
          /\ Len(lastImport.pre.annotations) >= k
          /\ annotations[k].points # lastImport.pre.annotations[k].points
          /\ Has(annotations[k], "projectedEdges")
          /\ Len(annotations[k].projectedEdges) = Len(annotations[k].points)
          /\ annotations[k].type = "line"

(***************************************************************************)
(* C26: an import recomputes the projected edges                           *)
(***************************************************************************)

ImportStep == importsDone' = importsDone + 1

\* The import has inserted the annotation at position k or has overwritten
\* its points.
TakenFromFile(k) ==
    \/ k > Len(annotations)
    \/ annotations'[k].points # annotations[k].points

\* The annotation has the edges computeProjectedEdges gives for its points.
FreshlyProjected(ann) ==
    /\ Has(ann, "projectedEdges")
    /\ ann.projectedEdges
          = computeProjectedEdges(ann.points, ann.type = "polygon")

\* C26: when an import step is over (the annotations are rendered after it),
\* every line or polygon of two points or more whose projection is not
\* switched off and that the import has inserted or given new points has
\* the projected edges of its new points.
C26_ImportReprojects ==
    [][ImportStep =>
          \A k \in 1..Len(annotations') :
              (/\ IsLineOrPolygon(annotations'[k])
               /\ Len(annotations'[k].points) >= 2
               /\ ProjectionNotOff(annotations'[k])
               /\ TakenFromFile(k))
                  => FreshlyProjected(annotations'[k])]_vars

\* An import that ran to its end has overwritten the points of a line and
\* has recomputed its edges.
ImportReprojected ==
    /\ status.kind = "import"
    /\ status.merged > 0
    /\ \E k \in 1..Len(annotations) :
          /\ Len(lastImport.pre.annotations) >= k
          /\ annotations[k].points # lastImport.pre.annotations[k].points
          /\ FreshlyProjected(annotations[k])

(***************************************************************************)
(* C29: the edges a point drag recomputes                                  *)
(***************************************************************************)

\* The position of the dragged annotation in the list.
Dragged == annotationById(annotations, editing.draggedAnnotation)

\* Edge e (from point e to point e + 1, the closing edge of a polygon back
\* to point 0) has point i as an end point.
Touches(ann, e, i) ==
    \/ e = i
    \/ IF ann.type = "polygon"
       THEN (e + 1) % Len(ann.points) = i
       ELSE e + 1 = i

\* The dragged annotation has cached edges and its projection is on.
DragsProjected ==
    /\ editing.isDraggingPoint
    /\ Dragged > 0
    /\ Has(annotations[Dragged], "projectedEdges")
    /\ ProjectionOn(annotations[Dragged])

\* The step has computed no edge but those at the dragged point.
OnlyAdjacentComputed ==
    \A j \in 1..Len(editing'.log.projected) :
        Touches(annotations[Dragged], editing'.log.projected[j],
                editing.draggedPointIndex)

\* The step has computed every edge at the dragged point anew, at the
\* resolution of a drag.
AdjacentComputed ==
    \A e \in 0..(Len(annotations[Dragged].projectedEdges) - 1) :
        (/\ e < EdgeCount(annotations[Dragged])
         /\ Touches(annotations[Dragged], e, editing.draggedPointIndex))
            => /\ \E j \in 1..Len(editing'.log.projected) :
                     editing'.log.projected[j] = e
               /\ annotations'[Dragged].projectedEdges[e + 1]
                     = projectEdgeToSurface(
                           annotations'[Dragged].points[e + 1],
                           annotations'[Dragged].points[
                               ((e + 1) % Len(annotations[Dragged].points)) + 1],
                           15)

\* Every cached edge that does not touch the dragged point is as it was.
OtherEdgesUnchanged ==
    /\ Len(annotations'[Dragged].projectedEdges)
          = Len(annotations[Dragged].projectedEdges)
    /\ \A e \in 0..(Len(annotations[Dragged].projectedEdges) - 1) :
          ~Touches(annotations[Dragged], e, editing.draggedPointIndex)
              => annotations'[Dragged].projectedEdges[e + 1]
                   = annotations[Dragged].projectedEdges[e + 1]

\* A move of the pointer over the model while a point is dragged.
MoveOnModel == \E pos \in DragPositions \ {0} : DragMove(pos)

\* The claim as it was stated: every step of the drag, its release
\* included, computes only the edges at the dragged point and leaves the
\* others.
C29_OnlyAdjacentThroughRelease ==
    [][(DragsProjected /\ (MoveOnModel \/ DragEnd))
          => (OnlyAdjacentComputed /\ OtherEdgesUnchanged)]_vars

\* The release has computed all edges of the annotation from its points.
AllComputedOnRelease ==
    /\ annotations'[Dragged].projectedEdges
          = computeProjectedEdges(annotations[Dragged].points,
                                  annotations[Dragged].type = "polygon")
    /\ editing'.log.projected
          = AllEdges(annotations'[Dragged].projectedEdges)

\* C29: while point i of an annotation with cached projected edges is
\* dragged, every move over the model recomputes the edges that touch point
\* i, and only those, and leaves every other cached edge unchanged; the
\* release of the button recomputes all edges of a line or polygon from
\* its final points.
C29_AdjacentOnMoveAllOnRelease ==
    [][/\ (DragsProjected /\ MoveOnModel)
            => (OnlyAdjacentComputed /\ AdjacentComputed
                /\ OtherEdgesUnchanged)
       /\ (DragsProjected /\ DragEnd /\ IsLineOrPolygon(annotations[Dragged]))
            => AllComputedOnRelease]_vars

\* Point 2 of the line of four points has been moved: e1 and e2 are those
\* of the drag, e0 is the edge computed before it.
C29_Witness ==
    /\ DragsProjected
    /\ editing.draggedPointIndex = 2
    /\ annotations[Dragged].type = "line"
    /\ Len(annotations[Dragged].points) = 4
    /\ annotations[Dragged].points[3] = HitPoint(2)
    /\ editing.log.projected = <<1, 2>>
    /\ annotations[Dragged].projectedEdges
          = <<projectEdgeToSurface(EditPoints[1], EditPoints[2], 30),
              projectEdgeToSurface(EditPoints[2], HitPoint(2), 15),
              projectEdgeToSurface(HitPoint(2), EditPoints[4], 15)>>

\* The point has been released: all three edges are computed again.
ReleasedAll ==
    /\ ~editing.isDraggingPoint
    /\ status.kind = "Point moved"
    /\ editing.log.projected = <<0, 1, 2>>
    /\ \E k \in 1..Len(annotations) :
          /\ Len(annotations[k].points) = 4
          /\ annotations[k].points[3] = HitPoint(2)
          /\ FreshlyProjected(annotations[k])

(***************************************************************************)
(* C31: the projection is taken or the straight segment                    *)
(***************************************************************************)

\* No sample of the projection between the two points lies further from
\* the chord than the relative or the absolute limit.
WithinLimits(pointA, pointB) ==
    /\ 100 * Deviation(pointA, pointB)
          <= projectionDeviationRelative * lineLength(pointA, pointB)
    /\ 100 * Deviation(pointA, pointB)
          <= projectionDeviationAbsolute * modelBoundingSize

\* Every edge of every projected annotation is the sampled polyline if
\* "sampled" holds of its end points, and their straight segment if not.
EdgesChosenBy(sampled(_, _)) ==
    \A k \in 1..Len(annotations) :
        Has(annotations[k], "projectedEdges") =>
            \A i \in 1..Len(annotations[k].projectedEdges) :
                LET pointA == annotations[k].points[i]
                    pointB == annotations[k].points[
                                  (i % Len(annotations[k].points)) + 1]
                IN annotations[k].projectedEdges[i] =
                       IF sampled(pointA, pointB)
                       THEN projectEdgeToSurface(pointA, pointB, 30)
                       ELSE straightEdge(pointA, pointB)

SampledAsClaimed(pointA, pointB) ==
    editing.modelMeshes > 0 /\ WithinLimits(pointA, pointB)

\* The claim as it was stated: an edge is the sampled polyline if and only
\* if a mesh is loaded and no sample exceeds the smaller limit.
C31_SampledIffWithinLimits == EdgesChosenBy(SampledAsClaimed)

SampledOrNoChord(pointA, pointB) ==
    /\ editing.modelMeshes > 0
    /\ (lineLength(pointA, pointB) = 0 \/ WithinLimits(pointA, pointB))

\* C31: each computed projected edge is the sampled surface polyline if
\* and only if a mesh is loaded and either its end points coincide or no
\* sample deviates from the chord by more than the smaller of the relative
\* and the absolute limit; in every other case it is the straight segment
\* between its end points.
C31_SampledIffAcceptable == EdgesChosenBy(SampledOrNoChord)

\* A line with one edge taken from the surface and one straight edge that
\* is within the relative limit and beyond the absolute one.
C31_Witness ==
    \E k \in 1..Len(annotations) :
        /\ Has(annotations[k], "projectedEdges")
        /\ Len(annotations[k].projectedEdges) = 2
        /\ annotations[k].projectedEdges[1].segments = 30
        /\ Deviation(annotations[k].points[1], annotations[k].points[2]) > 0
        /\ annotations[k].projectedEdges[2].segments = 1
        /\ 100 * Deviation(annotations[k].points[2], annotations[k].points[3])
              <= projectionDeviationRelative
                   * lineLength(annotations[k].points[2],
                                annotations[k].points[3])

\* Straight edges between points of the surface: no mesh is loaded.
StraightWithoutMesh ==
    \E k \in 1..Len(annotations) :
        /\ editing.modelMeshes = 0
        /\ Has(annotations[k], "projectedEdges")
        /\ Len(annotations[k].projectedEdges) = 1
        /\ annotations[k].projectedEdges[1].segments = 1
        /\ WithinLimits(annotations[k].points[1], annotations[k].points[2])

\* The polyline of two coinciding points that lie off the surface.
SampledWithoutChord ==
    \E k \in 1..Len(annotations) :
        /\ Has(annotations[k], "projectedEdges")
        /\ annotations[k].points[1] = annotations[k].points[2]
        /\ Height(annotations[k].points[1]) > 0
        /\ annotations[k].projectedEdges[1].segments = 30

(***************************************************************************)
(* C32: the camera controls outside a stroke and a drag                    *)
(***************************************************************************)

\* No paint stroke and no point drag is in progress.
NothingInProgress == ~editing.isPaintingSurface /\ ~editing.isDraggingPoint

\* C32: whenever no paint stroke and no point drag is in progress, the
\* camera controls are enabled, however the stroke was ended.
C32_ControlsEnabledWhenIdle == NothingInProgress => editing.controlsEnabled

\* The button has been released after a stroke that Escape or a tool switch
\* ended, and the camera controls are still disabled.
ControlsLeftDisabled ==
    /\ NothingInProgress
    /\ ~pointer.down
    /\ ~editing.controlsEnabled

(***************************************************************************)
(* C33: the same W3C file twice in a row                                   *)
(***************************************************************************)

\* A W3C collection all of whose annotations and entries carry a UUID.
CarriesUuids(data) ==
    /\ ~data.isNull
    /\ data.context /\ data.type = "AnnotationCollection"
    /\ \A i \in 1..Len(data.items) :
          /\ ~data.items[i].malformed
          /\ data.items[i].uuid # 0
          /\ \A j \in 1..Len(data.items[i].body) :
                data.items[i].body[j].entryUuid # 0
    /\ \A j \in 1..Len(data.modelInfo) : data.modelInfo[j].entryUuid # 0

\* The step reads the file the last import has read, and that import ran
\* to its end.
SameFileAgain ==
    /\ importsDone > 0
    /\ status.kind = "import"
    /\ ImportStep
    /\ lastImport'.data = lastImport.data

CountedUnchanged ==
    /\ MergedW3C
    /\ Len(Data.items) = 1
    /\ ItemIsMatched(1)
    /\ status.unchanged = 1

\* Name, group and geometry of the annotation are as they were.
SameMetadata(now, was) ==
    /\ now.name = was.name
    /\ now.groupId = was.groupId
    /\ now.points = was.points
    /\ now.faceData = was.faceData
    /\ now.boxData = was.boxData

UnchangedWithLongerHistory ==
    /\ CountedUnchanged
    /\ Len(LocalAfter(1).entries) = 1
    /\ Len(LocalAfter(1).entries[1].versions)
          > Len(LocalBefore(1).entries[1].versions)

(***************************************************************************)
(* The UUIDs of the annotations of a document.                             *)
(***************************************************************************)
\* C35: no two annotations of the document have the same UUID.
C35_AnnotationUuidsDistinct ==
    \A i, j \in 1..Len(annotations) :
        annotations[i].uuid = annotations[j].uuid => i = j

\* Two annotations under one UUID after a file of the legacy format.
SameUuidTwice ==
    /\ status.kind = "legacy"
    /\ \E i, j \in 1..Len(annotations) :
          i < j /\ annotations[i].uuid = annotations[j].uuid

\* An annotation that was drawn next to annotations that were read.
DrawnAndRead ==
    /\ importsDone > 0
    /\ \E i \in 1..Len(annotations) : annotations[i].uuid > UuidBase
    /\ \E i \in 1..Len(annotations) : annotations[i].uuid < UuidBase

(***************************************************************************)
(* The groups the annotations are filed under.                             *)
(***************************************************************************)
\* C36: the group id of every annotation is the id of a group of the
\* document, and the document has at least one group.
C36_GroupsExist ==
    /\ Len(groups) > 0
    /\ \A k \in 1..Len(annotations) :
          annotations[k].groupId \in GroupIds(groups)

\* An annotation a file had filed under its own group is in the one group
\* that is left, after a group was deleted and a name was saved.
FiledUnderTheGroupLeft ==
    /\ importsDone > 0
    /\ Len(groups) = 1
    /\ lastOp.op = "saveAnnotation"
    /\ \E k \in 1..Len(annotations) :
          /\ Len(annotations[k].groupVersions) > 0
          /\ annotations[k].groupId = groups[1].id

\* The group ids of the files are those of their groups, or none.
FiledByNumber ==
    \A k \in 1..Len(annotations) : annotations[k].groupId # ObjectFunction

\* An annotation whose group is what every object has as 'constructor'.
FiledUnderNoGroup ==
    /\ status.kind = "import"
    /\ \E k \in 1..Len(annotations) : annotations[k].groupId = ObjectFunction

(***************************************************************************)
(* Saving an entry as it is.                                               *)
(***************************************************************************)
\* The form of entry e of annotation k is saved with the description and
\* the author the entry has; the links are the entry's own.
SaveEntryAsItIs(k, e, content) ==
    /\ content.value = annotations[k].entries[e].description
    /\ content.creator = annotations[k].entries[e].author
    /\ SaveEntryEdit(k, e, content)

\* C37: saving an entry with the description, author and links it has
\* leaves the effective timestamp of the entry as it was.
C37_SameValuesKeepTimestamp ==
    [][\A k \in 1..Len(annotations) :
           \A e \in 1..Len(annotations[k].entries), content \in Contents :
               SaveEntryAsItIs(k, e, content) =>
                   entryTimestamp(annotations'[k].entries[e])
                       = entryTimestamp(annotations[k].entries[e])]_vars

\* An entry saved as it was: no snapshot was taken, and the entry is as
\* new as the save.
SavedAsItIsAndNewer ==
    /\ lastOp.op = "saveEntryEdit"
    /\ status.kind = "Entry saved"
    /\ \E k \in 1..Len(annotations) :
          /\ k <= Len(lastOp.annotations)
          /\ \E e \in 1..Len(annotations[k].entries) :
                /\ e <= Len(lastOp.annotations[k].entries)
                /\ annotations[k].entries[e]
                      = [lastOp.annotations[k].entries[e]
                            EXCEPT !.modified = clock]
                /\ entryTimestamp(lastOp.annotations[k].entries[e]) < clock

(***************************************************************************)
(* Two documents that are imported into each other.                        *)
(***************************************************************************)
Exchanged == importsDone = MaxImports + 1 /\ exportedFrom # NoDoc

\* What the claim compares of an entry, and the same of a body of a file.
Outcome(e) ==
    [description |-> e.description, author |-> e.author, links |-> e.links,
     modified |-> e.modified]

OutcomeOfBody(b) ==
    [description |-> b.value, author |-> b.creator, links |-> b.url,
     modified |-> b.modified]

\* The entries with UUID u of the annotations with UUID a.
EntriesUnder(anns, a, u) ==
    UNION {{anns[i].entries[j] :
               j \in {j \in 1..Len(anns[i].entries) :
                          anns[i].entries[j].uuid = u}} :
           i \in {i \in 1..Len(anns) : anns[i].uuid = a}}

\* Entry j of annotation i here and body l of item k of the colleague's
\* file are one entry of one annotation, with different effective times.
HeldByBoth(i, j, k, l) ==
    /\ Pre.annotations[i].uuid = Data.items[k].uuid
    /\ Pre.annotations[i].entries[j].uuid = Data.items[k].body[l].entryUuid
    /\ entryTimestamp(Pre.annotations[i].entries[j])
          # EffectiveTimeOfBody(Data.items[k].body[l])

LaterOutcome(x, b) ==
    IF entryTimestamp(x) > EffectiveTimeOfBody(b) THEN Outcome(x)
    ELSE OutcomeOfBody(b)

\* C38: after two documents were imported into each other, an entry both
\* held under one annotation UUID with different effective timestamps has
\* on both sides the description, author, links and modified time of the
\* copy with the later timestamp.
C38_ExchangeConverges ==
    Exchanged =>
        \A i \in 1..Len(Pre.annotations), k \in 1..Len(Data.items) :
            \A j \in 1..Len(Pre.annotations[i].entries),
               l \in 1..Len(Data.items[k].body) :
                HeldByBoth(i, j, k, l) =>
                    LET later == LaterOutcome(Pre.annotations[i].entries[j],
                                              Data.items[k].body[l])
                        a == Pre.annotations[i].uuid
                        u == Pre.annotations[i].entries[j].uuid
                    IN /\ {Outcome(e) : e \in EntriesUnder(annotations, a, u)}
                             = {later}
                       /\ {Outcome(e) :
                               e \in EntriesUnder(exportedFrom.annotations,
                                                  a, u)} = {later}

\* No UUID is the UUID of two annotations, here and in the file.
OneAnnotationPerUuid ==
    /\ \A i, j \in 1..Len(Pre.annotations) :
          Pre.annotations[i].uuid = Pre.annotations[j].uuid => i = j
    /\ \A i, j \in 1..Len(Data.items) :
          Data.items[i].uuid = Data.items[j].uuid => i = j

\* What holds of documents in which every UUID is one annotation's.
ConvergesWithoutCopies == OneAnnotationPerUuid => C38_ExchangeConverges

\* An exchange in which the two copies of an entry differed in time and in
\* description, the later one being the colleague's.
LaterCopyThere ==
    /\ Exchanged
    /\ \E i \in 1..Len(Pre.annotations), k \in 1..Len(Data.items) :
          \E j \in 1..Len(Pre.annotations[i].entries),
             l \in 1..Len(Data.items[k].body) :
              /\ HeldByBoth(i, j, k, l)
              /\ entryTimestamp(Pre.annotations[i].entries[j])
                    < EffectiveTimeOfBody(Data.items[k].body[l])
              /\ Pre.annotations[i].entries[j].description
                    # Data.items[k].body[l].value

\* The same, the later copy being the one here.
LaterCopyHere ==
    /\ Exchanged
    /\ \E i \in 1..Len(Pre.annotations), k \in 1..Len(Data.items) :
          \E j \in 1..Len(Pre.annotations[i].entries),
             l \in 1..Len(Data.items[k].body) :
              /\ HeldByBoth(i, j, k, l)
              /\ entryTimestamp(Pre.annotations[i].entries[j])
                    > EffectiveTimeOfBody(Data.items[k].body[l])
              /\ Pre.annotations[i].entries[j].description
                    # Data.items[k].body[l].value

\* An annotation that is here twice under one UUID, its entry taken from
\* the colleague in the first copy and as it was in the second.
UpdatedInOneCopy ==
    /\ Exchanged
    /\ \E i, j \in 1..Len(annotations) :
          /\ i < j
          /\ annotations[i].uuid = annotations[j].uuid
          /\ \E e \in 1..Len(annotations[i].entries),
                f \in 1..Len(annotations[j].entries) :
                /\ annotations[i].entries[e].uuid = annotations[j].entries[f].uuid
                /\ Outcome(annotations[i].entries[e])
                      # Outcome(annotations[j].entries[f])
                /\ annotations[j] = Pre.annotations[j]

(***************************************************************************)
(* The cached edges of the line that is being drawn.                       *)
(***************************************************************************)
\* C39: there are at most as many cached temporary edges as temporary
\* points less one, none when there is no point, and cached edge i is the
\* edge computed from the temporary points i and i + 1 as they are now.
C39_TempEdgesFollowPoints ==
    /\ Len(editing.tempProjectedEdges) <= Max(Len(editing.tempPoints) - 1, 0)
    /\ \A i \in 1..Len(editing.tempProjectedEdges) :
          /\ i + 1 <= Len(editing.tempPoints)
          /\ editing.tempProjectedEdges[i]
                = EdgeBetween(editing.tempPoints[i], editing.tempPoints[i + 1])

\* The second undo in a row: the cached edge went with the point it ended at.
C39_Witness ==
    /\ lastOp.op = "undoLastPoint"
    /\ Len(lastOp.pre.tempPoints) = 2
    /\ Len(lastOp.pre.tempProjectedEdges) = 1
    /\ Len(editing.tempPoints) = 1
    /\ Len(editing.tempProjectedEdges) = 0

\* The first undo: the edge between the two points that are left stays.
UndoKeepsTheEdgeBefore ==
    /\ lastOp.op = "undoLastPoint"
    /\ Len(lastOp.pre.tempPoints) = 3
    /\ Len(editing.tempPoints) = 2
    /\ editing.tempPoints[1] # editing.tempPoints[2]
    /\ editing.tempProjectedEdges = lastOp.pre.tempProjectedEdges
    /\ Len(editing.tempProjectedEdges) = 1

\* A point placed where one was undone, at another position.
PlacedAfterUndo ==
    /\ lastOp.op = "click"
    /\ Len(lastOp.pre.tempPoints) = 2
    /\ Len(lastOp.pre.tempProjectedEdges) = 1
    /\ Len(editing.tempPoints) = 3
    /\ editing.tempPoints[3] # editing.tempPoints[2]

====
